---- MODULE Spec2Model ----
(***************************************************************************)
(* A model of the LipC signaling server (src/server): the rate limiter,    *)
(* the refresh-token store, the session registry, the pending-call state   *)
(* machine of the signaling router and the server-side media terminus.     *)
(*                                                                         *)
(* Python dictionaries are functions whose DOMAIN is the set of keys       *)
(* present.  A coroutine is an action per stretch of code between two      *)
(* awaits that give control back to the event loop; the position of a      *)
(* suspended coroutine is kept in a task record.                           *)
(***************************************************************************)
EXTENDS Integers, Sequences, FiniteSets, TLC

\* ------------------------------------------------------------------------
\* Dictionaries
\* ------------------------------------------------------------------------
EmptyDict == [x \in {} |-> 0]

Put(d, k, v) == [x \in (DOMAIN d) \cup {k} |-> IF x = k THEN v ELSE d[x]]

Del(d, k) == [x \in (DOMAIN d) \ {k} |-> d[x]]

Has(d, k) == k \in DOMAIN d

\* ------------------------------------------------------------------------
\* Rate limiter (services/rate_limiter.py)
\* ------------------------------------------------------------------------
\* The tuning constants of the limiter, scaled down from the source's
\* 5 s / 60 messages / 30 s so that a window fills within a few calls.  The
\* relations the defaults have (M >= 1, B > W) are kept.
WINDOW_SECONDS == 2
MAX_MSG_PER_WIN == 2
BAN_SECONDS == 4

\* Bounds of the limiter's model: the clock and the number of calls made.
MaxRlTime == 6
MaxRlCalls == 6

Keys == {"ip1", "ip2"}

VARIABLES
    rl_now,         \* time.time(), in whole seconds
    wins,           \* RateLimiter._wins: key -> deque of timestamps
    banned_until,   \* RateLimiter._banned_until: key -> ban deadline
    rl_calls,       \* number of allow/forget calls made so far
    rl_last,        \* the last call: what it was, when, its result, the state before
    banAt,          \* history: key -> time of the key's latest ban
    granted,        \* history: key -> times of the allow()==True returns
    grantedNF       \* history: the same, restarted by forget(key)

rlVars == <<rl_now, wins, banned_until, rl_calls, rl_last, banAt, granted, grantedNF>>

\* `while win and now - win[0] > WINDOW_SECONDS: win.popleft()`
RECURSIVE EvictOffByOne(_, _)
EvictOffByOne(win, now) ==
    IF win # <<>> /\ now - Head(win) >= WINDOW_SECONDS
    THEN EvictOffByOne(Tail(win), now)
    ELSE win

RECURSIVE Evict(_, _)
Evict(win, now) ==
    IF win # <<>> /\ now - Head(win) > WINDOW_SECONDS
    THEN Evict(Tail(win), now)
    ELSE win

\* The timestamps of a history that lie within the last WINDOW_SECONDS.
Recent(log, now) == SelectSeq(log, LAMBDA t : now - t <= WINDOW_SECONDS)

\* `self._banned_until.get(key, 0) > time.time()`
is_banned(key) == (IF Has(banned_until, key) THEN banned_until[key] ELSE 0) > rl_now

RlRecord(op, key, res) ==
    [op |-> op, key |-> key, at |-> rl_now, res |-> res,
     prevWins |-> wins, prevBanned |-> banned_until]

\* A denied call during a ban that records the hit and restarts the ban.
AllowBannedExtends(key) ==
    /\ rl_last' = RlRecord("allow", key, FALSE)
    /\ wins' = Put(wins, key, Append(IF Has(wins, key) THEN wins[key] ELSE <<>>, rl_now))
    /\ banned_until' = Put(banned_until, key, rl_now + BAN_SECONDS)
    /\ UNCHANGED <<banAt, granted, grantedNF>>

\* A denied call during a ban: `if ban_deadline and now < ban_deadline: return False`
AllowBanned(key) ==
    /\ rl_last' = RlRecord("allow", key, FALSE)
    /\ UNCHANGED <<wins, banned_until, banAt, granted, grantedNF>>

\* The rest of allow() with the eviction test off by one (>= for >).
AllowRecordOffByOne(key) ==
    LET bans == IF Has(banned_until, key) THEN Del(banned_until, key) ELSE banned_until
        old  == IF Has(wins, key) THEN wins[key] ELSE <<>>
        win  == EvictOffByOne(Append(old, rl_now), rl_now)
    IN  IF Len(win) > MAX_MSG_PER_WIN
        THEN /\ banned_until' = Put(bans, key, rl_now + BAN_SECONDS)
             /\ wins' = Put(wins, key, <<>>)
             /\ rl_last' = RlRecord("allow", key, FALSE)
             /\ banAt' = Put(banAt, key, rl_now)
             /\ UNCHANGED <<granted, grantedNF>>
        ELSE /\ banned_until' = bans
             /\ wins' = Put(wins, key, win)
             /\ rl_last' = RlRecord("allow", key, TRUE)
             /\ granted' = [granted EXCEPT ![key] = Append(Recent(@, rl_now), rl_now)]
             /\ grantedNF' = [grantedNF EXCEPT ![key] = Append(Recent(@, rl_now), rl_now)]
             /\ UNCHANGED banAt

\* The rest of allow(): drop an expired ban, record the hit, evict, enforce.
AllowRecord(key) ==
    LET bans == IF Has(banned_until, key) THEN Del(banned_until, key) ELSE banned_until
        old  == IF Has(wins, key) THEN wins[key] ELSE <<>>
        win  == Evict(Append(old, rl_now), rl_now)
    IN  IF Len(win) > MAX_MSG_PER_WIN
        THEN /\ banned_until' = Put(bans, key, rl_now + BAN_SECONDS)
             /\ wins' = Put(wins, key, <<>>)
             /\ rl_last' = RlRecord("allow", key, FALSE)
             /\ banAt' = Put(banAt, key, rl_now)
             /\ UNCHANGED <<granted, grantedNF>>
        ELSE /\ banned_until' = bans
             /\ wins' = Put(wins, key, win)
             /\ rl_last' = RlRecord("allow", key, TRUE)
             /\ granted' = [granted EXCEPT ![key] = Append(Recent(@, rl_now), rl_now)]
             /\ grantedNF' = [grantedNF EXCEPT ![key] = Append(Recent(@, rl_now), rl_now)]
             /\ UNCHANGED banAt

\* RateLimiter.allow(key)
Allow(key) ==
    /\ rl_calls < MaxRlCalls
    /\ rl_calls' = rl_calls + 1
    /\ IF Has(banned_until, key) /\ rl_now < banned_until[key]
       THEN AllowBanned(key)
       ELSE AllowRecord(key)
    /\ UNCHANGED rl_now

\* RateLimiter.forget(key): `self._wins.pop(key, None)`
Forget(key) ==
    /\ rl_calls < MaxRlCalls
    /\ rl_calls' = rl_calls + 1
    /\ wins' = Del(wins, key)
    /\ rl_last' = RlRecord("forget", key, TRUE)
    /\ grantedNF' = [grantedNF EXCEPT ![key] = <<>>]
    /\ UNCHANGED <<rl_now, banned_until, banAt, granted>>

\* The clock advances between calls.
RlTick ==
    /\ rl_now < MaxRlTime
    /\ rl_now' = rl_now + 1
    /\ UNCHANGED <<wins, banned_until, rl_calls, rl_last, banAt, granted, grantedNF>>

RlInit ==
    /\ rl_now = 0
    /\ wins = EmptyDict
    /\ banned_until = EmptyDict
    /\ rl_calls = 0
    /\ rl_last = [op |-> "none", key |-> "ip1", at |-> 0, res |-> TRUE,
                  prevWins |-> EmptyDict, prevBanned |-> EmptyDict]
    /\ banAt = EmptyDict
    /\ granted = [k \in Keys |-> <<>>]
    /\ grantedNF = [k \in Keys |-> <<>>]

\* ------------------------------------------------------------------------
\* Refresh tokens (services/jwt_utils.py, database/refresh_tokens.py)
\* ------------------------------------------------------------------------
Users == {"u1", "u2"}
Conns == {"c1", "c2"}

\* The lifetime of a refresh token, scaled down from the source's 7 days to
\* ticks of this part's clock.
REFRESH_TOKEN_EXPIRE_DAYS == 1

\* Bounds: the clock, and the number of refresh tokens issued.
MaxTokTime == 2
MaxTokens == 2

VARIABLES
    tok_now,        \* datetime.now(timezone.utc)
    rt_collection,  \* the refresh_tokens collection, in insertion order
    next_jti,       \* uuid.uuid4(): the number of jti values drawn so far
    tok_task,       \* per connection: the create_refresh_token coroutine in flight
    tok_last,       \* the refresh_access_token call just made, if the last step was one
    everRevoked     \* history: the jti of every record that was marked revoked

tokVars == <<tok_now, rt_collection, next_jti, tok_task, tok_last, everRevoked>>

Range(f) == {f[x] : x \in DOMAIN f}

\* A JWT: its claims, whether its signature verifies under RSA_PUBLIC_KEY,
\* and which of the byte strings carrying these claims it is.
Jwt(sub, jti, exp, type) ==
    [sub |-> sub, jti |-> jti, exp |-> exp, type |-> type, sig |-> "good", v |-> 0]

\* _hash(token): the SHA-256 digest of the token's bytes.
Hash(token) == [sha256 |-> token]

\* verify_jwt(token, expected_type): jwt.decode checks the signature, then
\* exp; the type claim is compared afterwards.
verify_jwt(token, expected_type, now) ==
    IF token.sig # "good" THEN "invalid"
    ELSE IF token.exp <= now THEN "expired"
    ELSE IF token.type # expected_type THEN "invalid"
    ELSE "ok"

\* find_valid_token with the revoked flag left out of the query.
FindValidTokenIgnoringRevoked(rt, jti, token_hash, now) ==
    {i \in DOMAIN rt : /\ rt[i].jti = jti
                       /\ rt[i].token_hash = token_hash
                       /\ rt[i].expires_at > now}

\* find_valid_token(jti, token_hash): the records the query matches.
find_valid_token(rt, jti, token_hash, now) ==
    {i \in DOMAIN rt : /\ rt[i].jti = jti
                       /\ rt[i].token_hash = token_hash
                       /\ ~rt[i].revoked
                       /\ rt[i].expires_at > now}

\* revoke_previous_token: the records find_one_and_update may pick, those of
\* the user not yet revoked with the latest created_at.
RevokeCandidates(rt, user_id) ==
    LET live == {i \in DOMAIN rt : rt[i].user_id = user_id /\ ~rt[i].revoked}
    IN  {i \in live : \A j \in live : rt[j].created_at <= rt[i].created_at}

TokIdle == [pc |-> "idle", user |-> "u1", jti |-> 0, exp |-> 0]

TokNoCall == [op |-> "none", token |-> Jwt("u1", 0, 0, "refresh"), res |-> "invalid"]

\* create_refresh_token up to its first await: draw the jti, and
\* revoke_previous_token's find_one_and_update.
CreateRefreshRevoke(c, user_id) ==
    /\ tok_task[c].pc = "idle"
    /\ next_jti < MaxTokens
    /\ next_jti' = next_jti + 1
    /\ LET jti == next_jti + 1
           cand == RevokeCandidates(rt_collection, user_id)
       IN  /\ IF cand = {}
              THEN UNCHANGED <<rt_collection, everRevoked>>
              ELSE \E i \in cand :
                     /\ rt_collection' = [rt_collection EXCEPT
                                             ![i].revoked = TRUE,
                                             ![i].replaced_by_jti = jti]
                     /\ everRevoked' = everRevoked \cup {rt_collection[i].jti}
           /\ tok_task' = [tok_task EXCEPT ![c] =
                  [pc |-> "save", user |-> user_id, jti |-> jti,
                   exp |-> tok_now + REFRESH_TOKEN_EXPIRE_DAYS]]
    /\ tok_last' = TokNoCall
    /\ UNCHANGED tok_now

\* create_refresh_token from there: sign the token, save_refresh_token.
CreateRefreshSave(c) ==
    /\ tok_task[c].pc = "save"
    /\ LET t == tok_task[c]
           token == Jwt(t.user, t.jti, t.exp, "refresh")
       IN  rt_collection' = Append(rt_collection,
               [user_id |-> t.user, jti |-> t.jti, token_hash |-> Hash(token),
                expires_at |-> t.exp, revoked |-> FALSE, created_at |-> tok_now,
                replaced_by_jti |-> 0])
    /\ tok_task' = [tok_task EXCEPT ![c] = TokIdle]
    /\ tok_last' = TokNoCall
    /\ UNCHANGED <<tok_now, next_jti, everRevoked>>

\* revoke_token(jti)
RevokeToken(jti) ==
    /\ \E i \in DOMAIN rt_collection : rt_collection[i].jti = jti /\ ~rt_collection[i].revoked
    /\ rt_collection' = [i \in DOMAIN rt_collection |->
                            IF rt_collection[i].jti = jti
                            THEN [rt_collection[i] EXCEPT !.revoked = TRUE]
                            ELSE rt_collection[i]]
    /\ everRevoked' = everRevoked \cup {jti}
    /\ tok_last' = TokNoCall
    /\ UNCHANGED <<tok_now, next_jti, tok_task>>

\* The tokens a client may present: those the server issued, the same with a
\* later exp and a signature that does not verify, a validly signed token
\* with the same claims but other bytes, and an access token.
IssuedTokens == {Jwt(r.user_id, r.jti, r.expires_at, "refresh") : r \in Range(rt_collection)}

Presentable ==
    IssuedTokens
    \cup {[t EXCEPT !.sig = "bad", !.exp = MaxTokTime + 1] : t \in IssuedTokens}
    \cup {[t EXCEPT !.v = 1] : t \in IssuedTokens}
    \cup {Jwt(u, 0, tok_now + 1, "access") : u \in Users}

\* refresh_access_token(refresh_token): "accepted" when it returns a new
\* access token, else the exception it raises.  The revoke_token calls of
\* its two handlers pass a keyword revoke_token does not take; the TypeError
\* is swallowed by `except Exception: pass`, so no record changes.
refresh_access_token(token, rt, now) ==
    LET v == verify_jwt(token, "refresh", now)
    IN  IF v = "ok"
        THEN IF find_valid_token(rt, token.jti, Hash(token), now) = {}
             THEN "invalid"
             ELSE "accepted"
        ELSE v

RefreshAccess(token) ==
    /\ tok_last' = [op |-> "refresh", token |-> token,
                    res |-> refresh_access_token(token, rt_collection, tok_now)]
    /\ UNCHANGED <<tok_now, rt_collection, next_jti, tok_task, everRevoked>>

TokTick ==
    /\ tok_now < MaxTokTime
    /\ tok_now' = tok_now + 1
    /\ tok_last' = TokNoCall
    /\ UNCHANGED <<rt_collection, next_jti, tok_task, everRevoked>>

TokInit ==
    /\ tok_now = 0
    /\ rt_collection = <<>>
    /\ next_jti = 0
    /\ tok_task = [c \in Conns |-> TokIdle]
    /\ tok_last = TokNoCall
    /\ everRevoked = {}

\* ------------------------------------------------------------------------
\* Sessions, signalling and call history
\* (services/state.py, handlers/*.py, database/call_history.py)
\* ------------------------------------------------------------------------
\* Bounds of the exploration.
MaxObjs == 1
MaxRows == 2
MaxServers == 1

VARIABLES
    clients,        \* state.clients in insertion order: <<[uid, ws, pc]>>
    pending_calls,  \* state.pending_calls: call key -> PendingCall dict (index in objs)
    objs,           \* the PendingCall dicts ever created; starts counts the
                    \* start_call calls made for the dict (history)
    calls,          \* the calls collection: call_id is the index of the row
    contacts,       \* users collection: user -> its contacts array
    servers,        \* the WebRTCServer instances ever created
    conn_task,      \* per websocket: where handle_connection stands
    term_tasks,     \* _terminate_call coroutines suspended at finish_call
    last,           \* the handler call that has just returned (history)
    offerOpen       \* pairs with a relayed offer not yet answered, rejected or ended (history)

sigVars == <<clients, pending_calls, objs, calls, contacts, servers, conn_task,
             term_tasks, last, offerOpen>>

Targets == Users \cup {"server"}

\* The order of Python's string comparison on the ids explored.
SortedIds == <<"server", "u1", "u2">>

IdRank(uid) == CHOOSE i \in DOMAIN SortedIds : SortedIds[i] = uid

\* The two ids as a tuple in the order given.
CallKeyAsGiven(uid1, uid2) == <<uid1, uid2>>

\* call_key: tuple(sorted([uid1, uid2])).
call_key(uid1, uid2) ==
    IF IdRank(uid1) <= IdRank(uid2) THEN <<uid1, uid2>> ELSE <<uid2, uid1>>

\* dict operations on state.clients, which keeps insertion order.
InClients(u) == \E i \in DOMAIN clients : clients[i].uid = u

ClientOf(u) == clients[CHOOSE i \in DOMAIN clients : clients[i].uid = u]

SetClient(cl, u, rec) ==
    IF \E i \in DOMAIN cl : cl[i].uid = u
    THEN [i \in DOMAIN cl |-> IF cl[i].uid = u THEN rec ELSE cl[i]]
    ELSE Append(cl, rec)

PopClient(cl, u) == SelectSeq(cl, LAMBDA e : e.uid # u)

\* data.jwt of a client message: absent, or a token string.
NoToken == [sub |-> "", jti |-> 0, exp |-> 0, type |-> "", sig |-> "none", v |-> 0]

\* create_access_token(user_id): an access token that outlives the exploration.
create_access_token(user_id) == Jwt(user_id, 0, MaxTokTime + 1, "access")

\* The tokens explored: none, a good one of each user, an expired one and a
\* forged one.
MsgTokens ==
    {NoToken}
    \cup {create_access_token(u) : u \in Users}
    \cup {Jwt("u1", 0, 0, "access"),
          [create_access_token("u1") EXCEPT !.sig = "bad"]}

\* verify_jwt_in_message without the comparison of sub with the declared user.
VerifyInMessageAnySubject(token, expected_type, user_id) ==
    IF token = NoToken THEN "MISSING_TOKEN"
    ELSE LET r == verify_jwt(token, expected_type, tok_now)
         IN  IF r = "expired" THEN "TOKEN_EXPIRED"
             ELSE IF r = "invalid" THEN "INVALID_TOKEN"
             ELSE "ok"

verify_jwt_in_message(token, expected_type, user_id) ==
    IF token = NoToken THEN "MISSING_TOKEN"
    ELSE LET r == verify_jwt(token, expected_type, tok_now)
         IN  IF r = "expired" THEN "TOKEN_EXPIRED"
             ELSE IF r = "invalid" THEN "INVALID_TOKEN"
             ELSE IF token.sub # user_id THEN "INVALID_USER"
             ELSE "ok"

JwtOk(m) == verify_jwt_in_message(m.jwt, "access", m.user_id) = "ok"

\* The client messages explored: data.user_id, data.jwt, payload.from and
\* payload.target, between two different parties.  A handler that rejects
\* the JWT never looks at the payload, so one payload stands for all of them
\* there.
Msgs ==
    {m \in [user_id : Users, jwt : MsgTokens, from : Users, target : Targets] :
        /\ m.from # m.target
        /\ \/ m.jwt = create_access_token(m.user_id)
           \/ m.user_id = "u1" /\ m.from = "u1" /\ m.target = "u2"}

Idle == [pc |-> "idle", info |-> 0, id |-> 0, target |-> "", user |-> "",
         pcs |-> {}, accept |-> FALSE]

NoEvent == [type |-> "none", valid |-> TRUE, pend |-> FALSE, err |-> FALSE,
            fwd |-> "none", changed |-> FALSE, row |-> FALSE, accept |-> FALSE]

\* What a handler call did: reply, relay and whether server state changed.
Event(type, valid, pend, err, fwd) ==
    [type |-> type, valid |-> valid, pend |-> pend, err |-> err, fwd |-> fwd,
     changed |-> <<clients', pending_calls', objs', calls', contacts', servers'>>
                 # <<clients, pending_calls, objs, calls, contacts, servers>>,
     row |-> calls' # calls,
     accept |-> type = "answer" /\ offerOpen' # offerOpen]

\* AuthHandler.handle_authentication: a wrong password is answered with an
\* error, a right one registers the session.
handle_authentication(c, u, password_ok) ==
    /\ conn_task[c].pc = "idle"
    /\ clients' = IF password_ok
                  THEN SetClient(clients, u, [uid |-> u, ws |-> c, pc |-> 0])
                  ELSE clients
    /\ UNCHANGED <<pending_calls, objs, calls, contacts, servers, conn_task,
                   term_tasks, offerOpen>>
    /\ last' = Event("authenticate", TRUE, FALSE, ~password_ok, "none")

\* AuthHandler.handle_logout: payload.user_id names the session to remove
\* ("" when the field is absent).
handle_logout(c, m, payload_user_id) ==
    /\ conn_task[c].pc = "idle"
    /\ clients' = IF payload_user_id = "" THEN clients
                  ELSE PopClient(clients, payload_user_id)
    /\ UNCHANGED <<pending_calls, objs, calls, contacts, servers, conn_task,
                   term_tasks, offerOpen>>
    /\ last' = Event("logout", JwtOk(m), FALSE, payload_user_id = "", "none")

\* The call-control handlers: check the JWT, then relay to payload.target.
Relay(c, type, m) ==
    /\ conn_task[c].pc = "idle"
    /\ UNCHANGED <<clients, pending_calls, objs, calls, contacts, servers,
                   conn_task, term_tasks>>
    /\ offerOpen' = IF JwtOk(m) /\ type \in {"call_reject", "call_end"}
                    THEN offerOpen \ {call_key(m.from, m.target)}
                    ELSE offerOpen
    /\ last' = IF ~JwtOk(m) THEN Event(type, FALSE, FALSE, TRUE, "none")
               ELSE IF InClients(m.target)
                    THEN Event(type, TRUE, FALSE, FALSE, ClientOf(m.target).ws)
                    ELSE Event(type, TRUE, FALSE, TRUE, "none")

handle_call_invite(c, m) == Relay(c, "call_invite", m)

handle_call_accept(c, m) == Relay(c, "call_accept", m)

handle_call_reject(c, m) == Relay(c, "call_reject", m)

handle_call_end(c, m) == Relay(c, "call_end", m)

handle_video_state(c, m) == Relay(c, "video_state", m)

\* RTCPeerConnection.close(): the first close moves the connection to
\* "closed" and raises connectionstatechange, later ones do nothing.
PcClose(S, s) ==
    IF S[s].pc = "closed" THEN S
    ELSE [S EXCEPT ![s].pc = "closed", ![s].events = @ + 1]

\* SignalingHandler.handle_server_offer: builds a WebRTCServer, whose
\* constructor stores its peer connection in clients[sender]["pc"].
handle_server_offer(c, m, other_user) ==
    /\ conn_task[c].pc = "idle"
    /\ UNCHANGED <<pending_calls, objs, calls, contacts, conn_task, term_tasks,
                   offerOpen>>
    /\ IF ~JwtOk(m)
       THEN /\ UNCHANGED <<clients, servers>>
            /\ last' = Event("server_offer", FALSE, FALSE, TRUE, "none")
       ELSE IF ~InClients(m.from)
       THEN \* clients[sender] raises KeyError: "Dispatch error"
            /\ UNCHANGED <<clients, servers>>
            /\ last' = Event("server_offer", TRUE, FALSE, TRUE, "none")
       ELSE /\ Len(servers) < MaxServers
            /\ servers' = Append(servers,
                   [sender |-> m.from, target |-> other_user,
                    call_id |-> 0, pc |-> "connected", events |-> 0,
                    sleeping |-> 0])
            /\ clients' = SetClient(clients, m.from,
                   [ClientOf(m.from) EXCEPT !.pc = Len(servers) + 1])
            /\ last' = Event("server_offer", TRUE, FALSE, FALSE, "none")

\* SignalingHandler.handle_offer between two peers.
PeerOffer(c, m) ==
    LET key == call_key(m.from, m.target)
    IN  /\ conn_task[c].pc = "idle"
        /\ UNCHANGED <<clients, calls, contacts, servers, conn_task, term_tasks>>
        /\ IF ~JwtOk(m)
           THEN /\ UNCHANGED <<pending_calls, objs, offerOpen>>
                /\ last' = Event("offer", FALSE, FALSE, TRUE, "none")
           ELSE IF ~InClients(m.from) \/ ~InClients(m.target)
           THEN /\ UNCHANGED <<pending_calls, objs, offerOpen>>
                /\ last' = Event("offer", TRUE, FALSE, TRUE, "none")
           ELSE /\ IF Has(pending_calls, key)
                   THEN UNCHANGED <<pending_calls, objs>>
                   ELSE /\ Len(objs) < MaxObjs
                        /\ objs' = Append(objs,
                               [caller |-> m.from, callee |-> m.target,
                                call_id |-> 0, ended |-> FALSE, starts |-> 0])
                        /\ pending_calls' = Put(pending_calls, key, Len(objs) + 1)
                /\ offerOpen' = offerOpen \cup {key}
                /\ last' = Event("offer", TRUE, Has(pending_calls, key), FALSE,
                                 ClientOf(m.target).ws)

handle_offer(c, m) ==
    IF m.target = "server"
    THEN \E other_user \in Users \ {m.from} : handle_server_offer(c, m, other_user)
    ELSE PeerOffer(c, m)

\* SignalingHandler.handle_server_answer and handle_server_ice_candidate:
\* both hand the payload to clients[sender]["pc"], if there is one.
ToServerPc(c, type, m) ==
    /\ conn_task[c].pc = "idle"
    /\ UNCHANGED <<clients, pending_calls, objs, calls, contacts, servers,
                   conn_task, term_tasks, offerOpen>>
    /\ last' = IF ~JwtOk(m) THEN Event(type, FALSE, FALSE, TRUE, "none")
               ELSE IF InClients(m.from) /\ ClientOf(m.from).pc # 0
                    THEN Event(type, TRUE, FALSE, FALSE, "none")
                    ELSE Event(type, TRUE, FALSE, TRUE, "none")

handle_ice_candidate(c, m) ==
    IF m.target = "server" THEN ToServerPc(c, "server_ice_candidate", m)
    ELSE Relay(c, "ice_candidate", m)

\* SignalingHandler.handle_answer up to its first suspension: either it
\* returns, or it has called start_call and waits for the result.
PeerAnswer(c, m) ==
    LET key == call_key(m.from, m.target)
        info == IF Has(pending_calls, key) THEN pending_calls[key] ELSE 0
    IN  /\ conn_task[c].pc = "idle"
        /\ UNCHANGED <<clients, pending_calls, contacts, servers, term_tasks>>
        /\ IF ~JwtOk(m)
           THEN /\ UNCHANGED <<objs, calls, conn_task, offerOpen>>
                /\ last' = Event("answer", FALSE, info # 0, TRUE, "none")
           ELSE IF ~InClients(m.target)
           THEN /\ UNCHANGED <<objs, calls, conn_task, offerOpen>>
                /\ last' = Event("answer", TRUE, info # 0, TRUE, "none")
           ELSE /\ offerOpen' = offerOpen \ {key}
                /\ IF info # 0 /\ objs[info].call_id = 0
                   THEN /\ Len(calls) < MaxRows
                        /\ calls' = Append(calls,
                               [caller_id |-> objs[info].caller,
                                callee_id |-> objs[info].callee,
                                finished |-> 0])
                        /\ objs' = [objs EXCEPT ![info].starts = @ + 1]
                        /\ conn_task' = [conn_task EXCEPT ![c] =
                               [Idle EXCEPT !.pc = "answer", !.info = info,
                                            !.id = Len(calls) + 1,
                                            !.target = m.target,
                                            !.accept = key \in offerOpen]]
                        /\ last' = NoEvent
                   ELSE /\ UNCHANGED <<objs, calls, conn_task>>
                        /\ last' = Event("answer", TRUE, info # 0, FALSE,
                                         ClientOf(m.target).ws)

handle_answer(c, m) ==
    IF m.target = "server" THEN ToServerPc(c, "server_answer", m)
    ELSE PeerAnswer(c, m)

\* handle_answer resumed: store the call id in the PendingCall dict it
\* looked up before the await, then relay the answer.
AnswerResume(c) ==
    LET t == conn_task[c]
    IN  /\ t.pc = "answer"
        /\ objs' = [objs EXCEPT ![t.info].call_id = t.id]
        /\ conn_task' = [conn_task EXCEPT ![c] = Idle]
        /\ UNCHANGED <<clients, pending_calls, calls, contacts, servers,
                       term_tasks, offerOpen>>
        /\ last' = [type |-> "answer", valid |-> TRUE, pend |-> TRUE,
                    err |-> ~InClients(t.target),
                    fwd |-> IF InClients(t.target) THEN ClientOf(t.target).ws
                            ELSE "none",
                    changed |-> TRUE, row |-> TRUE, accept |-> t.accept]

\* WebRTCServer._ensure_call_id: one poll that finds the call id.
EnsureCallId(s) ==
    LET key == call_key(servers[s].sender, servers[s].target)
    IN  /\ servers[s].call_id = 0
        /\ Has(pending_calls, key)
        /\ objs[pending_calls[key]].call_id # 0
        /\ servers' = [servers EXCEPT ![s].call_id = objs[pending_calls[key]].call_id]
        /\ last' = NoEvent
        /\ UNCHANGED <<clients, pending_calls, objs, calls, contacts, conn_task,
                       term_tasks, offerOpen>>

\* The peer connection loses its transport: connectionstatechange is raised.
PcStateChange(s, state) ==
    /\ \/ state = "disconnected" /\ servers[s].pc = "connected"
       \/ state = "failed" /\ servers[s].pc \in {"connected", "disconnected"}
       \/ state = "connected" /\ servers[s].pc = "disconnected"
    /\ servers' = [servers EXCEPT ![s].pc = state, ![s].events = @ + 1]
    /\ last' = NoEvent
    /\ UNCHANGED <<clients, pending_calls, objs, calls, contacts, conn_task,
                   term_tasks, offerOpen>>

\* WebRTCServer._terminate_call of instance s up to its first suspension;
\* S is the servers table as the caller leaves it.
TerminateCall(s, S) ==
    LET me == S[s]
        key == call_key(me.sender, me.target)
        info == IF Has(pending_calls, key) THEN pending_calls[key] ELSE 0
    IN  IF me.call_id # 0 /\ info # 0 /\ ~objs[info].ended
        THEN \* finish_call(self.call_id) is called and awaited
             /\ calls' = [calls EXCEPT ![me.call_id].finished = @ + 1]
             /\ term_tasks' = Append(term_tasks, [srv |-> s, info |-> info])
             /\ servers' = S
             /\ UNCHANGED pending_calls
        ELSE /\ pending_calls' = IF me.call_id # 0 THEN Del(pending_calls, key)
                                 ELSE pending_calls
             /\ servers' = PcClose(S, s)
             /\ UNCHANGED <<calls, term_tasks>>

\* WebRTCServer._on_pc_state run for one connectionstatechange event.
OnPcState(s) ==
    /\ servers[s].events > 0
    /\ LET S == [servers EXCEPT ![s].events = @ - 1]
       IN  IF servers[s].pc \in {"closed", "failed"} THEN TerminateCall(s, S)
           ELSE IF servers[s].pc = "disconnected"
           THEN /\ servers' = [S EXCEPT ![s].sleeping = @ + 1]
                /\ UNCHANGED <<pending_calls, calls, term_tasks>>
           ELSE /\ servers' = S
                /\ UNCHANGED <<pending_calls, calls, term_tasks>>
    /\ last' = NoEvent
    /\ UNCHANGED <<clients, objs, contacts, conn_task, offerOpen>>

\* _on_pc_state terminating after its sleep whatever the state is then.
OnPcStateWakeNoCheck(s) ==
    /\ servers[s].sleeping > 0
    /\ TerminateCall(s, [servers EXCEPT ![s].sleeping = @ - 1])
    /\ last' = NoEvent
    /\ UNCHANGED <<clients, objs, contacts, conn_task, offerOpen>>

\* _on_pc_state after its five second sleep.
OnPcStateWake(s) ==
    /\ servers[s].sleeping > 0
    /\ LET S == [servers EXCEPT ![s].sleeping = @ - 1]
       IN  IF servers[s].pc = "disconnected" THEN TerminateCall(s, S)
           ELSE /\ servers' = S
                /\ UNCHANGED <<pending_calls, calls, term_tasks>>
    /\ last' = NoEvent
    /\ UNCHANGED <<clients, objs, contacts, conn_task, offerOpen>>

\* _terminate_call resumed after finish_call.
TerminateResume(i) ==
    LET t == term_tasks[i]
        me == servers[t.srv]
    IN  /\ objs' = [objs EXCEPT ![t.info].ended = TRUE]
        /\ pending_calls' = Del(pending_calls, call_key(me.sender, me.target))
        /\ servers' = PcClose(servers, t.srv)
        /\ term_tasks' = [j \in 1..(Len(term_tasks) - 1) |->
                             IF j < i THEN term_tasks[j] ELSE term_tasks[j + 1]]
        /\ last' = NoEvent
        /\ UNCHANGED <<clients, calls, contacts, conn_task, offerOpen>>

\* handle_connection leaves its receive loop; handle_disconnection looks
\* for the session of this websocket and closes its peer connection.
handle_disconnection(c) ==
    LET mine == {i \in DOMAIN clients : clients[i].ws = c}
        held == {clients[i].pc : i \in mine} \ {0}
        first == CHOOSE i \in mine : \A j \in mine : i <= j
    IN  /\ conn_task[c].pc = "idle"
        /\ last' = NoEvent
        /\ UNCHANGED <<pending_calls, objs, calls, contacts, term_tasks,
                       offerOpen>>
        /\ IF mine = {}
           THEN /\ conn_task' = [conn_task EXCEPT ![c] =
                       [Idle EXCEPT !.pc = "closed", !.pcs = held]]
                /\ UNCHANGED <<clients, servers>>
           ELSE IF clients[first].pc = 0
           THEN /\ clients' = PopClient(clients, clients[first].uid)
                /\ conn_task' = [conn_task EXCEPT ![c] =
                       [Idle EXCEPT !.pc = "closed", !.pcs = held]]
                /\ UNCHANGED servers
           ELSE /\ servers' = PcClose(servers, clients[first].pc)
                /\ conn_task' = [conn_task EXCEPT ![c] =
                       [Idle EXCEPT !.pc = "closing", !.pcs = held,
                                    !.user = clients[first].uid]]
                /\ UNCHANGED clients

\* handle_disconnection resumed after pc.close(): del clients[username].
DisconnectionResume(c) ==
    /\ conn_task[c].pc = "closing"
    /\ clients' = PopClient(clients, conn_task[c].user)
    /\ conn_task' = [conn_task EXCEPT ![c] = [@ EXCEPT !.pc = "closed", !.user = ""]]
    /\ last' = NoEvent
    /\ UNCHANGED <<pending_calls, objs, calls, contacts, servers, term_tasks,
                   offerOpen>>

\* $push: the value goes to the end of the array.
Push(arr, x) == Append(arr, x)

\* $addToSet: the value goes to the end of the array unless it is in it.
AddToSet(arr, x) == IF x \in Range(arr) THEN arr ELSE Append(arr, x)

\* add_contact_to_user(user_id, contact_username): the contacts arrays
\* afterwards; nothing is written when get_user_by_username finds no user.
add_contact_to_user(user_id, contact_username) ==
    IF contact_username \in Users
    THEN [contacts EXCEPT ![user_id] = AddToSet(@, contact_username)]
    ELSE contacts

\* The error code of handle_add_contact's reply, "" on success; an absent
\* contact_username is "".
AddContactCode(m, contact_username) ==
    IF ~JwtOk(m) THEN verify_jwt_in_message(m.jwt, "access", m.user_id)
    ELSE IF contact_username = "" THEN "MISSING_FIELDS"
    ELSE IF contact_username \notin Users THEN "ADD_CONTACT_FAILED"
    ELSE ""

\* ContactsHandler.handle_add_contact
handle_add_contact(c, m, contact_username) ==
    /\ conn_task[c].pc = "idle"
    /\ contacts' = IF JwtOk(m) /\ contact_username # ""
                   THEN add_contact_to_user(m.user_id, contact_username)
                   ELSE contacts
    /\ UNCHANGED <<clients, pending_calls, objs, calls, servers, conn_task,
                   term_tasks, offerOpen>>
    /\ last' = Event("add_contact", JwtOk(m), FALSE,
                     ~JwtOk(m) \/ contact_username \notin Users, "none")

\* ContactsHandler.handle_get_contacts: a read.
ReadOnly(c, type, m) ==
    /\ conn_task[c].pc = "idle"
    /\ UNCHANGED <<clients, pending_calls, objs, calls, contacts, servers,
                   conn_task, term_tasks, offerOpen>>
    /\ last' = Event(type, JwtOk(m), FALSE, ~JwtOk(m), "none")

handle_get_contacts(c, m) == ReadOnly(c, "get_contacts", m)

\* handle_fetch_call_history: serialising a call that has no ended_at raises,
\* which is answered with CALL_HISTORY_ERROR.
handle_fetch_call_history(c, m) ==
    /\ conn_task[c].pc = "idle"
    /\ UNCHANGED <<clients, pending_calls, objs, calls, contacts, servers,
                   conn_task, term_tasks, offerOpen>>
    /\ last' = Event("fetch_call_history", JwtOk(m), FALSE,
                     \/ ~JwtOk(m)
                     \/ \E i \in DOMAIN calls :
                            /\ m.user_id \in {calls[i].caller_id, calls[i].callee_id}
                            /\ calls[i].finished = 0,
                     "none")

SigInit ==
    /\ clients = <<>>
    /\ pending_calls = EmptyDict
    /\ objs = <<>>
    /\ calls = <<>>
    /\ contacts = [u \in Users |-> <<>>]
    /\ servers = <<>>
    /\ conn_task = [c \in Conns |-> Idle]
    /\ term_tasks = <<>>
    /\ last = NoEvent
    /\ offerOpen = {}

\* ------------------------------------------------------------------------
\* verify_jwt_in_message applied to arbitrary tokens (services/jwt_utils.py)
\* ------------------------------------------------------------------------
VARIABLES
    jwt_call        \* the verify_jwt_in_message call just made: arguments, time, result

jwtVars == <<jwt_call>>

TokenTypes == {"access", "refresh"}

\* The token strings presented: none, and every combination of subject,
\* expiry, type claim and signature validity.
AnyTokens ==
    {NoToken}
    \cup [sub : Users, jti : {0}, exp : 0..(MaxTokTime + 1), type : TokenTypes,
          sig : {"good", "bad"}, v : {0}]

NoJwtCall == [op |-> "none", token |-> NoToken, expected_type |-> "access",
              user_id |-> "u1", at |-> 0, res |-> "MISSING_TOKEN"]

\* A call verify_jwt_in_message(token, expected_type, user_id).
VerifyInMessage(token, expected_type, user_id) ==
    jwt_call' = [op |-> "verify", token |-> token, expected_type |-> expected_type,
                 user_id |-> user_id, at |-> tok_now,
                 res |-> verify_jwt_in_message(token, expected_type, user_id)]

JwtInit == jwt_call = NoJwtCall

\* ------------------------------------------------------------------------
\* Sign-up and login (handlers/auth_handler.py, database/users.py)
\* ------------------------------------------------------------------------
\* The length limits of constants.py and of the password pattern, scaled
\* down from 32 / 128 / 30 / 8 so that short strings reach them.
USERNAME_MAX_LENGTH == 2
PASSWORD_MAX_LENGTH == 5
NAME_PART_MAX_LENGTH == 2
PASSWORD_MIN_LENGTH == 4

\* Bound of the model: the number of user documents inserted.
MaxUsers == 2

VARIABLES
    users_collection,   \* the users collection: documents in insertion order
    auth_task,          \* per connection: where its signup/authenticate call stands
    auth_last           \* the signup/authenticate call that has just returned (history)

authVars == <<users_collection, auth_task, auth_last>>

\* Strings are sequences of characters; one character stands for its class.
Str(n, ch) == [i \in 1..n |-> ch]

IsLower(ch) == ch \in {"a", "b"}
IsUpper(ch) == ch \in {"A"}
IsDigit(ch) == ch \in {"1"}
IsAlpha(ch) == IsLower(ch) \/ IsUpper(ch)
IsWord(ch) == IsAlpha(ch) \/ IsDigit(ch) \/ ch = "_"

\* str.split(): the maximal runs of non-blank characters.
RECURSIVE SplitFrom(_, _, _)
SplitFrom(s, cur, acc) ==
    LET done == IF cur = <<>> THEN acc ELSE Append(acc, cur)
    IN  IF s = <<>> THEN done
        ELSE IF Head(s) = " " THEN SplitFrom(Tail(s), <<>>, done)
        ELSE SplitFrom(Tail(s), Append(cur, Head(s)), acc)

Split(s) == SplitFrom(s, <<>>, <<>>)

\* re.match(r'^[A-Za-z]+$', part)
AllAlpha(s) == s # <<>> /\ \A i \in DOMAIN s : IsAlpha(s[i])

\* re.match(r'^[a-zA-Z0-9_]+$', username)
AllWord(s) == s # <<>> /\ \A i \in DOMAIN s : IsWord(s[i])

\* re.match(r'^(?=.*[a-z])(?=.*[A-Z])(?=.*\d)(?=.*\W).{8,}$', password)
StrongPassword(s) ==
    /\ \E i \in DOMAIN s : IsLower(s[i])
    /\ \E i \in DOMAIN s : IsUpper(s[i])
    /\ \E i \in DOMAIN s : IsDigit(s[i])
    /\ \E i \in DOMAIN s : ~IsWord(s[i])
    /\ Len(s) >= PASSWORD_MIN_LENGTH

\* The name check of handle_signup: exactly two parts, letters only, each
\* at most NAME_PART_MAX_LENGTH long.
BadName(name) ==
    LET name_parts == Split(name)
    IN  \/ Len(name_parts) # 2
        \/ \E i \in DOMAIN name_parts : ~AllAlpha(name_parts[i])
        \/ \E i \in DOMAIN name_parts : Len(name_parts[i]) > NAME_PART_MAX_LENGTH

\* bcrypt.hashpw / bcrypt.checkpw
Hashpw(password) == [bcrypt |-> password]

CheckpwAlways(password, hashed) == TRUE

checkpw(password, hashed) == hashed = Hashpw(password)

\* The validation of handle_signup up to the uniqueness lookup: the error
\* code sent, or "" when the payload passes.
SignupError(p) ==
    IF p.username = <<>> \/ p.password = <<>> \/ p.name = <<>>
    THEN "SIGNUP_MISSING_CREDENTIALS"
    ELSE IF Len(p.username) > USERNAME_MAX_LENGTH \/ Len(p.password) > PASSWORD_MAX_LENGTH
    THEN "FIELDS_TOO_LONG"
    ELSE IF BadName(p.name) THEN "INVALID_NAME_FORMAT"
    ELSE IF ~AllWord(p.username) THEN "INVALID_USERNAME"
    ELSE IF ~StrongPassword(p.password) THEN "WEAK_PASSWORD"
    ELSE ""

\* The validation of handle_authentication up to the lookup.
AuthError(p) ==
    IF p.username = <<>> \/ p.password = <<>>
    THEN "AUTH_MISSING_CREDENTIALS"
    ELSE IF Len(p.username) > USERNAME_MAX_LENGTH \/ Len(p.password) > PASSWORD_MAX_LENGTH
    THEN "CREDENTIALS_TOO_LONG"
    ELSE ""

\* The strings explored.
GoodPassword == <<"a", "A", "1", "!">> \o Str(PASSWORD_MIN_LENGTH - 4, "a")
OtherPassword == <<"b", "A", "1", "!">> \o Str(PASSWORD_MIN_LENGTH - 4, "a")
GoodName == <<"a", " ", "b">>

Payload(username, password, name) ==
    [username |-> username, password |-> password, name |-> name]

\* Signup payloads: well-formed ones for two usernames, and one or more for
\* every way of being ill-formed.
SignupPayloads ==
    {Payload(<<"a">>, GoodPassword, GoodName),
     Payload(<<"b">>, GoodPassword, <<" ", "a", " ", "b", " ">>),
     Payload(<<>>, GoodPassword, GoodName),
     Payload(<<"a">>, <<>>, GoodName),
     Payload(<<"a">>, GoodPassword, <<>>),
     Payload(Str(USERNAME_MAX_LENGTH + 1, "a"), GoodPassword, GoodName),
     Payload(<<"a">>, GoodPassword \o Str(PASSWORD_MAX_LENGTH, "a"), GoodName),
     Payload(<<"a">>, GoodPassword, <<"a">>),
     Payload(<<"a">>, GoodPassword, <<"a", " ", "1">>),
     Payload(<<"a">>, GoodPassword, Str(NAME_PART_MAX_LENGTH + 1, "a") \o <<" ", "b">>),
     Payload(<<"a", "!">>, GoodPassword, GoodName),
     Payload(<<"a">>, Str(PASSWORD_MIN_LENGTH, "a"), GoodName),
     Payload(<<"a">>, <<"a", "A", "1", "_">> \o Str(PASSWORD_MIN_LENGTH - 4, "a"), GoodName)}

\* Login payloads (no name field).
LoginPayloads ==
    {Payload(<<"a">>, GoodPassword, <<>>),
     Payload(<<"b">>, GoodPassword, <<>>),
     Payload(<<"a">>, OtherPassword, <<>>),
     Payload(<<>>, GoodPassword, <<>>),
     Payload(<<"a">>, <<>>, <<>>),
     Payload(Str(USERNAME_MAX_LENGTH + 1, "a"), GoodPassword, <<>>),
     Payload(<<"a">>, GoodPassword \o Str(PASSWORD_MAX_LENGTH, "a"), <<>>)}

\* str(ObjectId): the id of the k-th document inserted.
ObjectId(k) == <<"u1", "u2", "u3", "u4">>[k]

\* users_collection.find_one({"username": username}): the position of the
\* first match, 0 for None.
find_one_username(coll, username) ==
    IF \E i \in DOMAIN coll : coll[i].username = username
    THEN CHOOSE i \in DOMAIN coll :
            /\ coll[i].username = username
            /\ \A j \in DOMAIN coll : coll[j].username = username => i <= j
    ELSE 0

AuthIdle == [pc |-> "idle", type |-> "", p |-> Payload(<<>>, <<>>, <<>>),
             found |-> 0, user_id |-> "", wrote |-> FALSE]

NoAuthEvent == [type |-> "none", p |-> Payload(<<>>, <<>>, <<>>), found |-> 0,
                err |-> "", wrote |-> FALSE, user_id |-> ""]

\* What a returning signup/authenticate call sent, and whether any of its
\* steps created a user, issued or revoked a token or registered a session.
AuthEvent(t, err) ==
    [type |-> t.type, p |-> t.p, found |-> t.found, err |-> err,
     wrote |-> t.wrote \/ <<users_collection', rt_collection', clients'>>
                          # <<users_collection, rt_collection, clients>>,
     user_id |-> t.user_id]

\* handle_signup up to the uniqueness lookup: validate the fields, then
\* get_user_by_username(username).
handle_signup(c, p) ==
    /\ auth_task[c].pc = "idle"
    /\ UNCHANGED <<users_collection, tokVars, clients>>
    /\ LET t == [AuthIdle EXCEPT !.type = "signup", !.p = p]
       IN  IF SignupError(p) # ""
           THEN /\ auth_last' = AuthEvent(t, SignupError(p))
                /\ UNCHANGED auth_task
           ELSE /\ auth_task' = [auth_task EXCEPT ![c] =
                       [t EXCEPT !.pc = "su_found",
                                 !.found = find_one_username(users_collection, p.username)]]
                /\ auth_last' = NoAuthEvent

\* handle_signup from the lookup's answer: USERNAME_EXISTS, or hash the
\* password and create_user(user_data).
SignupInsert(c) ==
    LET t == auth_task[c]
    IN  /\ t.pc = "su_found"
        /\ UNCHANGED <<tokVars, clients>>
        /\ IF t.found # 0
           THEN /\ UNCHANGED users_collection
                /\ auth_task' = [auth_task EXCEPT ![c] = AuthIdle]
                /\ auth_last' = AuthEvent(t, "USERNAME_EXISTS")
           ELSE /\ Len(users_collection) < MaxUsers
                /\ users_collection' = Append(users_collection,
                       [username |-> t.p.username,
                        password_hash |-> Hashpw(t.p.password),
                        name |-> t.p.name])
                /\ auth_task' = [auth_task EXCEPT ![c] =
                       [t EXCEPT !.pc = "issue", !.wrote = TRUE,
                                 !.user_id = ObjectId(Len(users_collection) + 1)]]
                /\ auth_last' = NoAuthEvent

\* handle_authentication up to the lookup: validate the fields, then
\* get_user_by_username(username).
Authenticate(c, p) ==
    /\ auth_task[c].pc = "idle"
    /\ UNCHANGED <<users_collection, tokVars, clients>>
    /\ LET t == [AuthIdle EXCEPT !.type = "authenticate", !.p = p]
       IN  IF AuthError(p) # ""
           THEN /\ auth_last' = AuthEvent(t, AuthError(p))
                /\ UNCHANGED auth_task
           ELSE /\ auth_task' = [auth_task EXCEPT ![c] =
                       [t EXCEPT !.pc = "au_found",
                                 !.found = find_one_username(users_collection, p.username)]]
                /\ auth_last' = NoAuthEvent

\* handle_authentication from the lookup's answer: USER_NOT_FOUND,
\* INCORRECT_PASSWORD, or go on to issue the tokens.
AuthenticateCheck(c) ==
    LET t == auth_task[c]
    IN  /\ t.pc = "au_found"
        /\ UNCHANGED <<users_collection, tokVars, clients>>
        /\ IF t.found = 0
           THEN /\ auth_last' = AuthEvent(t, "USER_NOT_FOUND")
                /\ auth_task' = [auth_task EXCEPT ![c] = AuthIdle]
           ELSE IF ~checkpw(t.p.password, users_collection[t.found].password_hash)
           THEN /\ auth_last' = AuthEvent(t, "INCORRECT_PASSWORD")
                /\ auth_task' = [auth_task EXCEPT ![c] = AuthIdle]
           ELSE /\ auth_task' = [auth_task EXCEPT ![c] =
                       [t EXCEPT !.pc = "issue", !.user_id = ObjectId(t.found)]]
                /\ auth_last' = NoAuthEvent

\* Both handlers: create_access_token(user_id), then create_refresh_token
\* (user_id) up to its save_refresh_token.
AuthIssue(c) ==
    LET t == auth_task[c]
    IN  /\ t.pc = "issue"
        /\ CreateRefreshRevoke(c, t.user_id)
        /\ auth_task' = [auth_task EXCEPT ![c] =
               [t EXCEPT !.pc = "save",
                         !.wrote = t.wrote \/ rt_collection' # rt_collection]]
        /\ auth_last' = NoAuthEvent
        /\ UNCHANGED <<users_collection, clients>>

\* create_refresh_token's save_refresh_token.
AuthSave(c) ==
    LET t == auth_task[c]
    IN  /\ t.pc = "save"
        /\ CreateRefreshSave(c)
        /\ auth_task' = [auth_task EXCEPT ![c] = [t EXCEPT !.pc = "register", !.wrote = TRUE]]
        /\ auth_last' = NoAuthEvent
        /\ UNCHANGED <<users_collection, clients>>

\* Both handlers from there: `clients[user_id] = {...}` and the success reply.
AuthRegister(c) ==
    LET t == auth_task[c]
    IN  /\ t.pc = "register"
        /\ clients' = SetClient(clients, t.user_id, [uid |-> t.user_id, ws |-> c, pc |-> 0])
        /\ UNCHANGED <<users_collection, tokVars>>
        /\ auth_task' = [auth_task EXCEPT ![c] = AuthIdle]
        /\ auth_last' = AuthEvent([t EXCEPT !.wrote = TRUE], "")

\* AuthHandler.handle_refresh_token: payload.refresh_jwt is checked with
\* verify_jwt, then with refresh_access_token; every exception is answered
\* with REFRESH_FAILED.  A token is issued only to a user that was found or
\* created, and no user is ever deleted, so get_user_by_id finds the user of
\* an accepted token.
handle_refresh_token(c, refresh_jwt) ==
    /\ conn_task[c].pc = "idle"
    /\ LET res == IF refresh_jwt = NoToken THEN "MISSING_REFRESH_TOKEN"
                  ELSE IF verify_jwt(refresh_jwt, "refresh", tok_now) # "ok"
                       THEN "REFRESH_FAILED"
                  ELSE IF refresh_access_token(refresh_jwt, rt_collection, tok_now)
                             # "accepted"
                       THEN "REFRESH_FAILED"
                  ELSE "ok"
       IN  /\ clients' = IF res = "ok"
                         THEN SetClient(clients, refresh_jwt.sub,
                                        [uid |-> refresh_jwt.sub, ws |-> c, pc |-> 0])
                         ELSE clients
           /\ tok_last' = [op |-> "handle_refresh_token", token |-> refresh_jwt,
                           res |-> res]
           /\ UNCHANGED <<tok_now, rt_collection, next_jti, tok_task, everRevoked>>
           /\ UNCHANGED <<pending_calls, objs, calls, contacts, servers, conn_task,
                          term_tasks, offerOpen>>
           /\ last' = Event("refresh_token", TRUE, FALSE, res # "ok", "none")

AuthInit ==
    /\ users_collection = <<>>
    /\ auth_task = [c \in Conns |-> AuthIdle]
    /\ auth_last = NoAuthEvent

\* ------------------------------------------------------------------------
\* Connections: handshake, receive loop, frames sent (handlers/connection.py,
\* services/crypto_utils.py)
\* ------------------------------------------------------------------------
VARIABLES
    ws_state,       \* per connection: "new" (server handshake sent), "open", "closed"
    aes_key,        \* per connection: the session key of handle_connection, NoKey before
    session_key,    \* clients[user_id]["aes_key"]: user id -> key stored with the session
    sent,           \* the frames the last step sent, in order (history)
    wire_last,      \* the frame the receive loop has just taken: connection and class (history)
    conn_hist       \* per connection: its first message, loop entered, handler dispatched (history)

wireVars == <<ws_state, aes_key, session_key, sent, wire_last, conn_hist>>

\* The period of heartbeat_check and its threshold, scaled down from 10 s
\* and 15 s; the threshold lies between one period and two, as there.
HEARTBEAT_INTERVAL == 2
HEARTBEAT_TIMEOUT == 3

VARIABLES
    hb_age,         \* per connection: time.time() - last_ping, counted up to HEARTBEAT_TIMEOUT + 1
    hb_wait,        \* per connection: what is left of heartbeat_check's asyncio.sleep
    hb_task,        \* per connection: heartbeat_task is "sleeping", "cancelling" (cancel()
                    \* was called), "cancelled" or "done"
    hb_last         \* the check heartbeat_check has just made: connection, age seen, closed or not (history)

hbVars == <<hb_age, hb_wait, hb_task, hb_last>>

NoCheck == [conn |-> "", age |-> 0, closed |-> FALSE]

NoKey == [server_private |-> "", client_public |-> "", salt |-> ""]

\* compute_shared_secret and derive_aes_key: the key is a function of the
\* server's ephemeral private key, the client's public key and the salt.
derive_aes_key(server_private, client_public, salt) ==
    [server_private |-> server_private, client_public |-> client_public, salt |-> salt]

\* The first message of a client: plain text, a JSON array, or a JSON
\* object with its msg_type and what its payload holds.
FirstMessages ==
    [kind : {"object"}, msg_type : {"handshake", "authenticate"},
     payload : BOOLEAN, has_key : BOOLEAN, client_public_key : {"pkA"}]
    \cup [kind : {"text", "array"}, msg_type : {""}, payload : {FALSE},
          has_key : {FALSE}, client_public_key : {""}]
    \cup [kind : {"object"}, msg_type : {"handshake"}, payload : {TRUE},
          has_key : {TRUE}, client_public_key : {"pkB", "garbage"}]

NoFirst == [kind |-> "none", msg_type |-> "", payload |-> FALSE, has_key |-> FALSE,
            client_public_key |-> ""]

\* The handshake test with msg_type left unchecked.
HandshakeAnyType(m) ==
    IF m.kind # "object" THEN "Handshake failed"
    ELSE IF ~m.payload THEN "Handshake failed"
    ELSE IF ~m.has_key THEN "Invalid handshake response"
    ELSE IF m.client_public_key = "garbage" THEN "Handshake failed"
    ELSE ""

\* The handshake phase applied to the client's message: the plaintext error
\* sent, or "" when a key is derived.
HandshakeError(m) ==
    IF m.kind # "object" THEN "Handshake failed"
    ELSE IF m.msg_type # "handshake" THEN "Invalid handshake response"
    ELSE IF ~m.payload THEN "Handshake failed"
    ELSE IF ~m.has_key THEN "Invalid handshake response"
    ELSE IF m.client_public_key = "garbage" THEN "Handshake failed"
    ELSE ""

\* A frame on the wire: the socket, the key it is encrypted under (NoKey
\* and enc FALSE for plaintext), and the shape of its JSON.
Frame(ws, key, shape) ==
    [ws |-> ws, enc |-> TRUE, key |-> key, shape |-> shape, stage |-> "session"]

PlainFrame(ws, shape) ==
    [ws |-> ws, enc |-> FALSE, key |-> NoKey, shape |-> shape, stage |-> "handshake"]

\* structure_encrypt_send_message / send_error_message: message_id,
\* timestamp, msg_type, success, payload, and the error fields on failure.
Structured(ws, key, success) ==
    Frame(ws, key, IF success THEN "structured_ok" ELSE "structured_error")

NoRecv == [conn |-> "", class |-> "none"]

\* handle_connection from the client's first message to the receive loop.
Handshake(c, m) ==
    /\ ws_state[c] = "new"
    /\ IF HandshakeError(m) # ""
       THEN /\ ws_state' = [ws_state EXCEPT ![c] = "closed"]
            /\ sent' = <<PlainFrame(c, "bare_error")>>
            /\ conn_hist' = [conn_hist EXCEPT ![c].first = m]
            /\ UNCHANGED aes_key
       ELSE /\ ws_state' = [ws_state EXCEPT ![c] = "open"]
            /\ aes_key' = [aes_key EXCEPT ![c] =
                              derive_aes_key(c, m.client_public_key, c)]
            /\ sent' = <<>>
            /\ conn_hist' = [conn_hist EXCEPT ![c].first = m, ![c].entered = TRUE]
    /\ wire_last' = NoRecv
    /\ UNCHANGED session_key

\* The frames a client sends after the handshake that reach no handler:
\* an envelope (under the session key or another), or no envelope, around
\* plain text, a JSON scalar, a JSON array or a JSON object; an object is a
\* ping, has an unknown msg_type, or names a handler but lacks the payload.
WireFrames ==
    [env : BOOLEAN, own_key : BOOLEAN, kind : {"text", "scalar", "array"},
     msg_type : {""}]
    \cup [env : BOOLEAN, own_key : BOOLEAN, kind : {"object"},
          msg_type : {"ping", "bogus", "call_invite"}]

\* What the receive loop does with a frame before any handler runs.
FrameClass(f) ==
    IF f.env /\ ~f.own_key THEN "undecodable"
    ELSE IF f.kind = "text" THEN "undecodable"
    ELSE IF f.kind = "scalar" THEN (IF f.env THEN "nonobject" ELSE "undecodable")
    ELSE IF f.kind = "array" THEN "nonobject"
    ELSE IF f.msg_type = "ping" THEN "ping"
    ELSE IF f.msg_type = "bogus" THEN "unknown"
    ELSE "raising"

\* The keys of the sessions left in a clients table.
KeysOf(cl, keys) ==
    [u \in (DOMAIN keys) \cap {cl[i].uid : i \in DOMAIN cl} |-> keys[u]]

\* The receive loop leaves: `finally` calls heartbeat_task.cancel(), which
\* only requests the cancellation, and goes on into handle_disconnection
\* without awaiting the task.
LoopExit(c) ==
    /\ handle_disconnection(c)
    /\ ws_state' = [ws_state EXCEPT ![c] = "closed"]
    /\ session_key' = KeysOf(clients', session_key)
    /\ sent' = <<>>
    /\ hb_task' = [hb_task EXCEPT ![c] = IF @ = "sleeping" THEN "cancelling" ELSE @]
    /\ hb_last' = NoCheck
    /\ UNCHANGED <<aes_key, conn_hist, hb_age, hb_wait>>

\* One turn of the receive loop for a frame that reaches no handler.
RecvFrame(c, f) ==
    /\ ws_state[c] = "open"
    /\ conn_task[c].pc = "idle"
    /\ wire_last' = [conn |-> c, class |-> FrameClass(f)]
    /\ IF FrameClass(f) = "nonobject"
       THEN \* data.get raises outside both try blocks
            LoopExit(c)
       ELSE /\ sent' = <<Frame(c, aes_key[c],
                               IF FrameClass(f) = "ping" THEN "pong" ELSE "bare_error")>>
            /\ conn_hist' = [conn_hist EXCEPT ![c].dispatched =
                                @ \/ FrameClass(f) \in {"unknown", "raising"}]
            /\ last' = NoEvent
            /\ hb_age' = IF FrameClass(f) = "ping" THEN [hb_age EXCEPT ![c] = 0]
                         ELSE hb_age
            /\ hb_last' = NoCheck
            /\ UNCHANGED <<ws_state, aes_key, session_key, clients, pending_calls,
                           objs, calls, contacts, servers, conn_task, term_tasks,
                           offerOpen, hb_wait, hb_task>>

\* The client closes the socket, or heartbeat_check has closed it: the
\* receive loop ends.
ClientClose(c) ==
    /\ ws_state[c] \in {"open", "closing"}
    /\ conn_task[c].pc = "idle"
    /\ wire_last' = NoRecv
    /\ LoopExit(c)

\* `time.time() - last_ping > 15` with the comparison relaxed to >=.
StaleAtTimeout(age) == age >= HEARTBEAT_TIMEOUT

\* `time.time() - last_ping > 15`
Stale(age) == age > HEARTBEAT_TIMEOUT

\* heartbeat_check wakes from its sleep: it closes the socket and ends, or
\* sleeps again.
HeartbeatCheck(c) ==
    /\ hb_task[c] = "sleeping"
    /\ hb_wait[c] = 0
    /\ hb_last' = [conn |-> c, age |-> hb_age[c], closed |-> Stale(hb_age[c])]
    /\ IF Stale(hb_age[c])
       THEN /\ hb_task' = [hb_task EXCEPT ![c] = "done"]
            /\ ws_state' = [ws_state EXCEPT ![c] =
                                IF @ = "open" THEN "closing" ELSE "closed"]
            /\ UNCHANGED hb_wait
       ELSE /\ hb_wait' = [hb_wait EXCEPT ![c] = HEARTBEAT_INTERVAL]
            /\ UNCHANGED <<hb_task, ws_state>>
    /\ sent' = <<>>
    /\ wire_last' = NoRecv
    /\ UNCHANGED <<hb_age, aes_key, session_key, conn_hist>>

\* The event loop throws CancelledError into a heartbeat_check whose
\* cancellation was requested: the task ends.
HeartbeatCancelled(c) ==
    /\ hb_task[c] = "cancelling"
    /\ hb_task' = [hb_task EXCEPT ![c] = "cancelled"]
    /\ hb_last' = NoCheck
    /\ sent' = <<>>
    /\ wire_last' = NoRecv
    /\ UNCHANGED <<hb_age, hb_wait, ws_state, aes_key, session_key, conn_hist>>

\* One second passes; a heartbeat_check that is due runs first.
HbTick ==
    /\ \A c \in Conns : hb_task[c] = "sleeping" => hb_wait[c] > 0
    /\ \E c \in Conns : hb_task[c] = "sleeping"
    /\ hb_age' = [c \in Conns |->
                     IF hb_task[c] = "sleeping" /\ hb_age[c] <= HEARTBEAT_TIMEOUT
                     THEN hb_age[c] + 1 ELSE hb_age[c]]
    /\ hb_wait' = [c \in Conns |->
                      IF hb_task[c] = "sleeping" THEN hb_wait[c] - 1 ELSE hb_wait[c]]
    /\ hb_last' = NoCheck
    /\ sent' = <<>>
    /\ wire_last' = NoRecv
    /\ UNCHANGED <<hb_task, ws_state, aes_key, session_key, conn_hist>>

\* dispatch_message_encrypted enters a handler on connection c.
Dispatched(c) ==
    /\ ws_state[c] = "open"
    /\ wire_last' = [conn |-> c, class |-> "handler"]
    /\ conn_hist' = [conn_hist EXCEPT ![c].dispatched = TRUE]
    /\ UNCHANGED <<ws_state, aes_key>>

\* An authenticate message: the session stores the connection's key with
\* its socket; the reply goes back on the connection.
WireAuthenticate(c, u, password_ok) ==
    /\ Dispatched(c)
    /\ handle_authentication(c, u, password_ok)
    /\ session_key' = IF password_ok THEN Put(session_key, u, aes_key[c])
                      ELSE session_key
    /\ sent' = <<Structured(c, aes_key[c], password_ok)>>

\* `clients[target].get("aes_key")`, the sender's key when there is none.
SenderKey(target, key) == key

target_aes_key(target, key) ==
    IF Has(session_key, target) /\ session_key[target] # NoKey
    THEN session_key[target]
    ELSE key

\* The frames of a relaying handler: the error reply to the sender, or the
\* payload forwarded to the target's socket under the target's key.
RelayFrames(c, m) ==
    IF last'.err THEN <<Structured(c, aes_key[c], FALSE)>>
    ELSE IF last'.fwd # "none"
    THEN <<Structured(last'.fwd, target_aes_key(m.target, aes_key[c]), TRUE)>>
    ELSE <<>>

\* A call_invite message.
WireCallInvite(c, m) ==
    /\ Dispatched(c)
    /\ handle_call_invite(c, m)
    /\ sent' = RelayFrames(c, m)
    /\ UNCHANGED session_key

WireInit ==
    /\ hb_age = [c \in Conns |-> 0]
    /\ hb_wait = [c \in Conns |-> HEARTBEAT_INTERVAL]
    /\ hb_task = [c \in Conns |-> "sleeping"]
    /\ hb_last = NoCheck
    /\ ws_state = [c \in Conns |-> "new"]
    /\ aes_key = [c \in Conns |-> NoKey]
    /\ session_key = EmptyDict
    /\ sent = <<>>
    /\ wire_last = NoRecv
    /\ conn_hist = [c \in Conns |-> [first |-> NoFirst, entered |-> FALSE,
                                     dispatched |-> FALSE]]

\* ------------------------------------------------------------------------
\* Media termini and transcripts (handlers/signaling_handler.py,
\* database/call_history.py)
\* ------------------------------------------------------------------------
\* Bounds of the model: the clock of the call documents, and the number of
\* transcript lines written to one document.
MaxMediaTime == 2
MaxLines == 1
\* and, for the functions of call_history.py on their own, the number of
\* documents and of finish_call calls made for one document.
MaxDocs == 1
MaxFinishes == 2

VARIABLES
    media_now,      \* datetime.now(), in whole seconds
    video_task,     \* per WebRTCServer: where its _process_video loop stands
    call_docs       \* per call document: started_at, ended_at and duration_seconds
                    \* (-1 for None), the t of its transcript lines

mediaVars == <<media_now, video_task, call_docs>>

\* The divisor of finish_call's $divide.
MS_PER_SECOND == 1000

\* $subtract of two dates: their difference in milliseconds.
Subtract(d1, d2) == (d1 - d2) * MS_PER_SECOND

\* finish_call's pipeline without its $divide.
DurationInMillis(now, started_at) == Subtract(now, started_at)

\* finish_call: {"$divide": [{"$subtract": [now, "$started_at"]}, 1000]}
duration_seconds(now, started_at) == Subtract(now, started_at) \div MS_PER_SECOND

\* start_call and finish_call stamp the documents they insert or update.
StampCalls ==
    call_docs' =
        [i \in DOMAIN calls' |->
            IF i \notin DOMAIN calls
            THEN [started_at |-> media_now, ended_at |-> -1, duration_seconds |-> -1,
                  transcripts |-> <<>>]
            ELSE IF calls'[i].finished # calls[i].finished
            THEN [call_docs[i] EXCEPT
                     !.ended_at = media_now,
                     !.duration_seconds =
                         duration_seconds(media_now, call_docs[i].started_at)]
            ELSE call_docs[i]]

\* The functions of call_history.py called on their own, as the tests call
\* them.
RepoRest == <<clients, pending_calls, objs, contacts, servers, conn_task, term_tasks,
              offerOpen>>

\* start_call(caller_id, callee_id): insert_one.
start_call(caller_id, callee_id) ==
    /\ Len(calls) < MaxDocs
    /\ calls' = Append(calls, [caller_id |-> caller_id, callee_id |-> callee_id,
                               finished |-> 0])
    /\ StampCalls
    /\ last' = NoEvent
    /\ UNCHANGED <<RepoRest, media_now, video_task>>

\* append_line(call_id, ...): $push on the document with this _id, if any.
append_line(call_id) ==
    /\ IF call_id \in DOMAIN call_docs
       THEN /\ Len(call_docs[call_id].transcripts) < MaxLines
            /\ call_docs' = [call_docs EXCEPT ![call_id].transcripts =
                                Append(@, media_now)]
       ELSE UNCHANGED call_docs
    /\ last' = NoEvent
    /\ UNCHANGED <<RepoRest, calls, media_now, video_task>>

\* finish_call(call_id): the $set pipeline on the document with this _id,
\* if any.
finish_call(call_id) ==
    /\ IF call_id \in DOMAIN calls
       THEN /\ calls[call_id].finished < MaxFinishes
            /\ calls' = [calls EXCEPT ![call_id].finished = @ + 1]
       ELSE UNCHANGED calls
    /\ StampCalls
    /\ last' = NoEvent
    /\ UNCHANGED <<RepoRest, media_now, video_task>>

\* The frames a signalling handler sends: an error reply to the sender, the
\* payload relayed to the target, or the server's answer to the sender.
HandlerFrames(c, target) ==
    IF last'.err THEN <<Structured(c, aes_key[c], FALSE)>>
    ELSE IF last'.fwd # "none"
    THEN <<Structured(last'.fwd, target_aes_key(target, aes_key[c]), TRUE)>>
    ELSE IF last'.type = "server_offer" THEN <<Structured(c, aes_key[c], TRUE)>>
    ELSE <<>>

\* An offer message, to a peer or to the server.
MediaOffer(c, m) ==
    /\ Dispatched(c)
    /\ handle_offer(c, m)
    /\ sent' = HandlerFrames(c, m.target)
    /\ UNCHANGED <<session_key, mediaVars>>

\* An answer message up to its start_call.
MediaAnswer(c, m) ==
    /\ Dispatched(c)
    /\ handle_answer(c, m)
    /\ StampCalls
    /\ sent' = HandlerFrames(c, m.target)
    /\ UNCHANGED <<session_key, media_now, video_task>>

\* handle_answer resumed: the answer is relayed.
MediaAnswerResume(c) ==
    /\ AnswerResume(c)
    /\ sent' = HandlerFrames(c, conn_task[c].target)
    /\ wire_last' = NoRecv
    /\ UNCHANGED <<ws_state, aes_key, session_key, conn_hist, mediaVars>>

\* The steps of a WebRTCServer that send nothing: _ensure_call_id, a state
\* change of its peer connection, _on_pc_state and _terminate_call.
MediaSilent(A) ==
    /\ A
    /\ StampCalls
    /\ sent' = <<>>
    /\ wire_last' = NoRecv
    /\ UNCHANGED <<ws_state, aes_key, session_key, conn_hist, media_now, video_task>>

\* _process_video started without waiting for _ensure_call_id.
VideoRecvUnblocked(s) ==
    /\ servers[s].pc = "connected"
    /\ video_task[s] = "recv"
    /\ video_task' = [video_task EXCEPT ![s] = "infer"]
    /\ sent' = <<>>
    /\ wire_last' = NoRecv
    /\ last' = NoEvent
    /\ UNCHANGED <<clients, pending_calls, objs, calls, contacts, servers, conn_task,
                   term_tasks, offerOpen, ws_state, aes_key, session_key, conn_hist,
                   media_now, call_docs>>

\* _on_track after _ensure_call_id has returned, in _process_video: a frame
\* arrives from the track and goes to the inference executor.
VideoRecv(s) ==
    /\ servers[s].call_id # 0
    /\ servers[s].pc = "connected"
    /\ video_task[s] = "recv"
    /\ video_task' = [video_task EXCEPT ![s] = "infer"]
    /\ sent' = <<>>
    /\ wire_last' = NoRecv
    /\ last' = NoEvent
    /\ UNCHANGED <<clients, pending_calls, objs, calls, contacts, servers, conn_task,
                   term_tasks, offerOpen, ws_state, aes_key, session_key, conn_hist,
                   media_now, call_docs>>

\* _process_video: the inference returns; an empty prediction is dropped,
\* another is written with append_line(self.call_id, ...).
VideoAppend(s, prediction) ==
    /\ video_task[s] = "infer"
    /\ IF prediction = ""
       THEN /\ video_task' = [video_task EXCEPT ![s] = "recv"]
            /\ UNCHANGED call_docs
       ELSE /\ Len(call_docs[servers[s].call_id].transcripts) < MaxLines
            /\ video_task' = [video_task EXCEPT ![s] = "relay"]
            /\ call_docs' = [call_docs EXCEPT ![servers[s].call_id].transcripts =
                                Append(@, media_now)]
    /\ sent' = <<>>
    /\ wire_last' = NoRecv
    /\ last' = NoEvent
    /\ UNCHANGED <<clients, pending_calls, objs, calls, contacts, servers, conn_task,
                   term_tasks, offerOpen, ws_state, aes_key, session_key, conn_hist,
                   media_now>>

\* _process_video of a terminus whose peer connection is closed:
\* track.recv() raises and the loop is left.
VideoEnd(s) ==
    /\ servers[s].call_id # 0
    /\ servers[s].pc = "closed"
    /\ video_task[s] = "recv"
    /\ video_task' = [video_task EXCEPT ![s] = "ended"]
    /\ sent' = <<>>
    /\ wire_last' = NoRecv
    /\ last' = NoEvent
    /\ UNCHANGED <<clients, pending_calls, objs, calls, contacts, servers, conn_task,
                   term_tasks, offerOpen, ws_state, aes_key, session_key, conn_hist,
                   media_now, call_docs>>

\* The connection a user signs in on, whose key its WebRTCServer holds.
HomeConn(u) == IF u = "u1" THEN "c1" ELSE "c2"

\* _process_video after append_line: _relay_message pushes the prediction
\* to the partner's socket, if the partner has a session.
VideoRelay(s) ==
    LET partner == servers[s].target
    IN  /\ video_task[s] = "relay"
        /\ video_task' = [video_task EXCEPT ![s] = "recv"]
        /\ sent' = IF InClients(partner)
                   THEN <<Structured(ClientOf(partner).ws,
                                     target_aes_key(partner, aes_key[HomeConn(servers[s].sender)]),
                                     TRUE)>>
                   ELSE <<>>
        /\ wire_last' = [conn |-> "", class |-> "prediction"]
        /\ last' = NoEvent
        /\ UNCHANGED <<clients, pending_calls, objs, calls, contacts, servers, conn_task,
                       term_tasks, offerOpen, ws_state, aes_key, session_key, conn_hist,
                       media_now, call_docs>>

\* The clock advances.
MediaTick ==
    /\ media_now < MaxMediaTime
    /\ media_now' = media_now + 1
    /\ UNCHANGED <<video_task, call_docs>>

MediaInit ==
    /\ media_now = 0
    /\ video_task = [s \in 1..MaxServers |-> "recv"]
    /\ call_docs = <<>>

\* ------------------------------------------------------------------------
\* Contacts (handlers/contacts_handler.py, database/users.py)
VARIABLES
    contact_last    \* the add_contact request just answered: user, contact, whether
                    \* its JWT verified, error code (history)

contactVars == <<contact_last>>

NoContactCall == [user |-> "", contact |-> "", valid |-> FALSE, code |-> ""]

\* An add_contact message and its reply.
AddContact(c, m, contact_username) ==
    /\ handle_add_contact(c, m, contact_username)
    /\ contact_last' = [user |-> m.user_id, contact |-> contact_username,
                        valid |-> JwtOk(m),
                        code |-> AddContactCode(m, contact_username)]

\* A login while contacts are edited.
ContactsLogin(c, u) ==
    /\ handle_authentication(c, u, TRUE)
    /\ contact_last' = NoContactCall

ContactInit == contact_last = NoContactCall

\* ------------------------------------------------------------------------
\* Connection state changes of a server peer connection, observed
\* (handlers/signaling_handler.py)
\* Bound: the state changes of the peer connections.
MaxPcChanges == 3

VARIABLES
    pc_changes,     \* the number of connectionstatechange events raised so far
    pc_last         \* the _on_pc_state step just taken: instance, step, state it saw (history)

pcVars == <<pc_changes, pc_last>>

NoPcStep == [srv |-> 0, step |-> "none", state |-> ""]

\* The transport of a peer connection changes state.
PcChange(s, state) ==
    /\ pc_changes < MaxPcChanges
    /\ PcStateChange(s, state)
    /\ pc_changes' = pc_changes + 1
    /\ pc_last' = NoPcStep

\* _on_pc_state is run for an event.
PcEvent(s) ==
    /\ OnPcState(s)
    /\ pc_last' = [srv |-> s, step |-> "event", state |-> servers[s].pc]
    /\ UNCHANGED pc_changes

\* _on_pc_state wakes from its sleep.
PcWake(s) ==
    /\ OnPcStateWake(s)
    /\ pc_last' = [srv |-> s, step |-> "wake", state |-> servers[s].pc]
    /\ UNCHANGED pc_changes

\* A user signs in, or asks for a server peer connection.
PcQuiet(A) ==
    /\ A
    /\ pc_last' = NoPcStep
    /\ UNCHANGED pc_changes

PcInit ==
    /\ pc_changes = 0
    /\ pc_last = NoPcStep

\* ------------------------------------------------------------------------
\* The audio pump of one media terminus (handlers/signaling_handler.py,
\* services/thread_executors.py, services/lip_reading/vosk_helper.py)
\* Bounds of the model: TARGET_CHUNK_SIZE (500 ms in the source) in the
\* model's unit of time, the audio frames that arrive, and the workers of
\* the speech executor, min(4, CPU_CORES - 1).
TARGET_CHUNK_SIZE == 3
MaxAudioFrames == 4
SpeechWorkers == 2

\* The audio tracks one peer connection may carry, and what one frame adds
\* to buffered_ms.
AudioTracks == {"a1", "a2"}
FrameMs == {1, 2}

VARIABLES
    audio_arrived,  \* the audio frames received so far; frame n is the n-th to arrive
    pcm_buffer,     \* self.pcm_buffer, as the numbers of the frames it holds
    buffered_ms,    \* self.buffered_ms
    audio_task,     \* per track: where its _process_audio stands, its chunk, its result
    speech_queue,   \* the work queue of _speech_executor: the tracks whose job waits
    recognizer,     \* the chunks self.recognizer has accepted, in the order accepted
    audio_log,      \* the append_line and _relay_message calls of the pump (history)
    audio_last      \* the step of _process_audio just taken (history)

audioVars == <<audio_arrived, pcm_buffer, buffered_ms, audio_task, speech_queue,
               recognizer, audio_log, audio_last>>

\* What process_audio_chunk returns: Result() with a "text", possibly
\* empty, or PartialResult() with a "partial", possibly empty.
VoskResults == {[final |-> f, text |-> t] : f \in BOOLEAN, t \in {"", "word"}}

NoResult == [final |-> FALSE, text |-> ""]

NoAudioStep == [track |-> "", op |-> "none", ms |-> 0, handed |-> FALSE,
                result |-> NoResult]

AudioIdle == [pc |-> "none", chunk |-> <<>>, result |-> NoResult]

\* _process_audio's test of the counter with > for >=.
ChunkReadyStrict(ms) == ms > TARGET_CHUNK_SIZE

\* _process_audio: if self.buffered_ms >= TARGET_CHUNK_SIZE
ChunkReady(ms) == ms >= TARGET_CHUNK_SIZE

\* The jobs of the recognizer that were submitted and have not returned.
InFlight == {t \in AudioTracks : audio_task[t].pc \in {"queued", "running"}}

\* _on_track for an audio track of a "vosk" terminus whose call_id is set:
\* _process_audio starts.
OnAudioTrack(t) ==
    /\ audio_task[t].pc = "none"
    /\ audio_task' = [audio_task EXCEPT ![t].pc = "recv"]
    /\ audio_last' = NoAudioStep
    /\ UNCHANGED <<audio_arrived, pcm_buffer, buffered_ms, speech_queue, recognizer,
                   audio_log>>

\* _process_audio: track.recv() returns a frame of d ms; it is buffered,
\* and a full buffer is taken as a chunk and submitted to the speech
\* executor.
AudioRecv(t, d) ==
    LET n == audio_arrived + 1
        buf == Append(pcm_buffer, n)
        ms == buffered_ms + d
    IN  /\ audio_task[t].pc = "recv"
        /\ audio_arrived < MaxAudioFrames
        /\ audio_arrived' = n
        /\ IF ChunkReady(ms)
           THEN /\ pcm_buffer' = <<>>
                /\ buffered_ms' = 0
                /\ audio_task' = [audio_task EXCEPT ![t].pc = "queued", ![t].chunk = buf]
                /\ speech_queue' = Append(speech_queue, t)
           ELSE /\ pcm_buffer' = buf
                /\ buffered_ms' = ms
                /\ UNCHANGED <<audio_task, speech_queue>>
        /\ audio_last' = [track |-> t, op |-> "recv", ms |-> ms,
                          handed |-> ChunkReady(ms), result |-> NoResult]
        /\ UNCHANGED <<recognizer, audio_log>>

\* A free worker of _speech_executor takes the oldest waiting job.
SpeechStart(t) ==
    /\ speech_queue # <<>>
    /\ Head(speech_queue) = t
    /\ Cardinality({x \in AudioTracks : audio_task[x].pc = "running"}) < SpeechWorkers
    /\ speech_queue' = Tail(speech_queue)
    /\ audio_task' = [audio_task EXCEPT ![t].pc = "running"]
    /\ audio_last' = NoAudioStep
    /\ UNCHANGED <<audio_arrived, pcm_buffer, buffered_ms, recognizer, audio_log>>

\* vosk_transcribe(recognizer, pcm) on a worker: the recognizer accepts the
\* chunk and the job returns r.
vosk_transcribe(t, r) ==
    /\ audio_task[t].pc = "running"
    /\ recognizer' = Append(recognizer, audio_task[t].chunk)
    /\ audio_task' = [audio_task EXCEPT ![t].pc = "done", ![t].result = r]
    /\ audio_last' = NoAudioStep
    /\ UNCHANGED <<audio_arrived, pcm_buffer, buffered_ms, speech_queue, audio_log>>

\* _process_audio resumed with the result: one without text is skipped, a
\* final one is written with append_line, a partial one goes straight to
\* _relay_message.
AudioResult(t) ==
    LET result == audio_task[t].result
    IN  /\ audio_task[t].pc = "done"
        /\ IF result.text = ""
           THEN /\ audio_task' = [audio_task EXCEPT ![t] = [AudioIdle EXCEPT !.pc = "recv"]]
                /\ UNCHANGED audio_log
           ELSE IF result.final
           THEN /\ audio_task' = [audio_task EXCEPT ![t].pc = "relay"]
                /\ audio_log' = Append(audio_log, [op |-> "append_line", track |-> t,
                                                   source |-> "vosk", text |-> result.text])
           ELSE /\ audio_task' = [audio_task EXCEPT ![t] = [AudioIdle EXCEPT !.pc = "recv"]]
                /\ audio_log' = Append(audio_log, [op |-> "relay", track |-> t,
                                                   source |-> "", text |-> result.text])
        /\ audio_last' = [track |-> t, op |-> "result", ms |-> 0, handed |-> FALSE,
                          result |-> result]
        /\ UNCHANGED <<audio_arrived, pcm_buffer, buffered_ms, speech_queue, recognizer>>

\* _process_audio after append_line: the final text goes to _relay_message.
AudioRelay(t) ==
    /\ audio_task[t].pc = "relay"
    /\ audio_log' = Append(audio_log, [op |-> "relay", track |-> t, source |-> "",
                                       text |-> audio_task[t].result.text])
    /\ audio_task' = [audio_task EXCEPT ![t] = [AudioIdle EXCEPT !.pc = "recv"]]
    /\ audio_last' = [track |-> t, op |-> "relay", ms |-> 0, handed |-> FALSE,
                      result |-> audio_task[t].result]
    /\ UNCHANGED <<audio_arrived, pcm_buffer, buffered_ms, speech_queue, recognizer>>

AudioInit ==
    /\ audio_arrived = 0
    /\ pcm_buffer = <<>>
    /\ buffered_ms = 0
    /\ audio_task = [t \in AudioTracks |-> AudioIdle]
    /\ speech_queue = <<>>
    /\ recognizer = <<>>
    /\ audio_log = <<>>
    /\ audio_last = NoAudioStep

\* ------------------------------------------------------------------------
\* The lip-reading pipeline shared by every media terminus
\* (services/lip_reading/lip_reader.py, services/thread_executors.py)
\* Bounds of the model: sequence_length (75 in the source) and the
\* process_frame calls made.
SEQUENCE_LEN == 3
MaxLipCalls == 6

VARIABLES
    lip_buffer,     \* _tf_pipe.buffer, as the users whose frames it holds
    lip_calls,      \* the lip_read jobs run so far
    lip_last        \* the process_frame call just returned (history)

lipVars == <<lip_buffer, lip_calls, lip_last>>

\* Python's None, and a returned str.
None == [none |-> TRUE, text |-> ""]
Text(text) == [none |-> FALSE, text |-> text]

NoLipCall == [sender |-> "", mouth |-> FALSE, before |-> 0, sequence |-> <<>>,
              returned |-> None]

\* process_frame's test of the buffer with > for ==.
BufferFullLate(buffer) == Len(buffer) > SEQUENCE_LEN

\* process_frame: if len(self.buffer) == self.sequence_length
BufferFull(buffer) == Len(buffer) = SEQUENCE_LEN

\* lip_read(frame) on the one worker of _tf_executor, for a frame that
\* _process_video of sender's terminus received: process_frame drops a
\* frame without a mouth, appends another, and on a full buffer predicts
\* text from the buffered sequence and clears the buffer.
process_frame(sender, mouth, text) ==
    LET buffer == Append(lip_buffer, sender)
    IN  /\ lip_calls < MaxLipCalls
        /\ lip_calls' = lip_calls + 1
        /\ IF ~mouth
           THEN /\ UNCHANGED lip_buffer
                /\ lip_last' = [sender |-> sender, mouth |-> mouth,
                                before |-> Len(lip_buffer), sequence |-> <<>>,
                                returned |-> None]
           ELSE IF BufferFull(buffer)
           THEN /\ lip_buffer' = <<>>
                /\ lip_last' = [sender |-> sender, mouth |-> mouth,
                                before |-> Len(lip_buffer), sequence |-> buffer,
                                returned |-> Text(text)]
           ELSE /\ lip_buffer' = buffer
                /\ lip_last' = [sender |-> sender, mouth |-> mouth,
                                before |-> Len(lip_buffer), sequence |-> <<>>,
                                returned |-> None]

LipInit ==
    /\ lip_buffer = <<>>
    /\ lip_calls = 0
    /\ lip_last = NoLipCall

\* ------------------------------------------------------------------------
\* SDP hygiene of a media terminus (handlers/signaling_handler.py)
\* Bound of the model: the lines of an SDP.
MaxSdpLines == 3

VARIABLES
    sdp_last        \* the _strip_rtx call just made: its sdp, its result, and the
                    \* result of stripping that result again (history)

sdpVars == <<sdp_last>>

\* Payload types, as the characters of their decimal form.
PayloadTypes == {<<"3", "9">>, <<"4", "0">>}

\* The lines of an SDP: a prefix up to and including its colon, a payload
\* type, a space and a value; a value is a sequence of characters, a run
\* without digits standing as one.
RtpmapValues == {<<"rtx/90000">>, <<"H264/90000">>}
FmtpValues == {<<"apt=", "3", "9">>, <<"profile-level-id=", "6", "4", "0", "0", "1", "f">>}
SdpLines ==
    {[prefix |-> "a=rtpmap:", pt |-> pt, value |-> v] :
         pt \in PayloadTypes, v \in RtpmapValues}
    \cup {[prefix |-> "a=fmtp:", pt |-> pt, value |-> v] :
              pt \in PayloadTypes, v \in FmtpValues}
    \cup {[prefix |-> "a=rtcp-fb:", pt |-> pt, value |-> <<"nack">>] :
              pt \in PayloadTypes}
    \cup {[prefix |-> "m=video", pt |-> <<>>, value |-> <<"UDP/TLS/RTP/SAVPF">>]}

\* The line breaks of a text, in the shape of its lines.
LF == [prefix |-> "\n", pt |-> <<>>, value |-> <<>>]
CRLF == [prefix |-> "\r\n", pt |-> <<>>, value |-> <<>>]
LineSeparators == {LF, CRLF}

\* The characters of a line.
LineText(line) ==
    IF line.prefix = "" THEN <<>>
    ELSE <<line.prefix>> \o line.pt \o <<" ">> \o line.value

\* The line without characters, and a line as a piece of text.
EmptyLine == [prefix |-> "", pt |-> <<>>, value |-> <<>>]
AsText(line) == IF line = EmptyLine THEN <<>> ELSE <<line>>

\* sep.join(lines)
RECURSIVE join(_, _)
join(sep, lines) ==
    IF lines = <<>> THEN <<>>
    ELSE IF Len(lines) = 1 THEN AsText(Head(lines))
    ELSE AsText(Head(lines)) \o <<sep>> \o join(sep, Tail(lines))

LineSeqs == UNION {[1..n -> SdpLines] : n \in 0..MaxSdpLines}

\* An SDP is a text: lines with a line break between them, and one at the
\* end or none.
SdpTexts ==
    {join(sep, lines) : lines \in LineSeqs, sep \in LineSeparators}
    \cup {join(sep, lines) \o <<sep>> : lines \in LineSeqs, sep \in LineSeparators}

\* str.splitlines(): the lines of a text, without their line breaks; a
\* line break at the end of the text starts no further line.
RECURSIVE splitlines(_)
splitlines(text) ==
    IF text = <<>> THEN <<>>
    ELSE IF Head(text) \in LineSeparators
    THEN <<EmptyLine>> \o splitlines(Tail(text))
    ELSE IF Len(text) >= 2 /\ text[2] \in LineSeparators
    THEN <<Head(text)>> \o splitlines(Tail(Tail(text)))
    ELSE <<Head(text)>> \o splitlines(Tail(text))

\* needle in hay, for strings.
In(needle, hay) ==
    \E i \in 1..(Len(hay) - Len(needle) + 1) :
        SubSeq(hay, i, i + Len(needle) - 1) = needle

\* line.startswith(prefix)
startswith(line, prefix) ==
    IF prefix = "a=rtpmap" THEN line.prefix = "a=rtpmap:" ELSE line.prefix = prefix

\* The test of the first loop of _strip_rtx, and the payload types it
\* collects.
IsRtxRtpmap(line) == startswith(line, "a=rtpmap") /\ In(<<"rtx/90000">>, LineText(line))

rtx(lines) == {lines[i].pt : i \in {j \in DOMAIN lines : IsRtxRtpmap(lines[j])}}

\* The first loop of _strip_rtx: the lines appended to filtered.
RECURSIVE FirstLoop(_)
FirstLoop(lines) ==
    IF lines = <<>> THEN <<>>
    ELSE IF IsRtxRtpmap(Head(lines)) THEN FirstLoop(Tail(lines))
    ELSE <<Head(lines)>> \o FirstLoop(Tail(lines))

\* The test of the second loop of _strip_rtx:
\* any(line.startswith(prefix) and pt in line for prefix in ... for pt in rtx)
Drops(line, pts) ==
    \E prefix \in {"a=fmtp:", "a=rtcp-fb:"}, pt \in pts :
        startswith(line, prefix) /\ In(pt, LineText(line))

\* The second loop of _strip_rtx: the lines appended to result.
RECURSIVE SecondLoop(_, _)
SecondLoop(filtered, pts) ==
    IF filtered = <<>> THEN <<>>
    ELSE IF Drops(Head(filtered), pts) THEN SecondLoop(Tail(filtered), pts)
    ELSE <<Head(filtered)>> \o SecondLoop(Tail(filtered), pts)

\* _strip_rtx(sdp)
_strip_rtx(sdp) ==
    LET lines == splitlines(sdp)
    IN  join(CRLF, SecondLoop(FirstLoop(lines), rtx(lines))) \o <<CRLF>>

NoSdpCall == [sdp |-> <<>>, result |-> <<>>, again |-> <<>>, called |-> FALSE]

\* handle_offer of a terminus, which is created for one offer, strips the
\* sdp of that offer; the result is stripped once more.
StripRtx(sdp) ==
    /\ ~sdp_last.called
    /\ sdp_last' = [sdp |-> sdp, result |-> _strip_rtx(sdp),
                    again |-> _strip_rtx(_strip_rtx(sdp)), called |-> TRUE]

SdpInit == sdp_last = NoSdpCall

pumpVars == <<audioVars, lipVars, sdpVars>>

PumpInit == AudioInit /\ LipInit /\ SdpInit

\* ------------------------------------------------------------------------
\* Signalling messages, observed (handlers/signaling_handler.py,
\* handlers/call_handler.py)
VARIABLES
    msg_last        \* the signalling message just handled: data.user_id, payload.from,
                    \* whether its JWT verified, and what the handler did (history)

auditVars == <<msg_last>>

NoMsg == [user_id |-> "", from |-> "", valid |-> FALSE, pending |-> FALSE,
          row |-> FALSE, relayed |-> FALSE, pc |-> FALSE]

\* A handler runs on message m up to its return or its first suspension.
Said(m, A) ==
    /\ A
    /\ msg_last' = [user_id |-> m.user_id, from |-> m.from, valid |-> JwtOk(m),
                    pending |-> pending_calls' # pending_calls,
                    row |-> calls' # calls,
                    relayed |-> last'.fwd # "none",
                    pc |-> servers' # servers]

\* A step that handles no message.
Unsaid(A) ==
    /\ A
    /\ msg_last' = NoMsg

AuditInit == msg_last = NoMsg

extVars == <<jwtVars, authVars, wireVars, hbVars, mediaVars, contactVars, pcVars, pumpVars, auditVars>>

ExtInit ==
    JwtInit /\ AuthInit /\ WireInit /\ MediaInit /\ ContactInit /\ PcInit /\ PumpInit
    /\ AuditInit

vars == <<rlVars, tokVars, sigVars, extVars>>

Init == RlInit /\ TokInit /\ SigInit /\ ExtInit

NextRL ==
    \/ \E k \in Keys : Allow(k) /\ UNCHANGED <<tokVars, sigVars, extVars>>
    \/ \E k \in Keys : Forget(k) /\ UNCHANGED <<tokVars, sigVars, extVars>>
    \/ RlTick /\ UNCHANGED <<tokVars, sigVars, extVars>>

SpecRL == Init /\ [][NextRL]_vars

NextTok ==
    \/ \E c \in Conns, u \in Users : CreateRefreshRevoke(c, u) /\ UNCHANGED <<rlVars, sigVars, extVars>>
    \/ \E c \in Conns : CreateRefreshSave(c) /\ UNCHANGED <<rlVars, sigVars, extVars>>
    \/ \E j \in 1..MaxTokens : RevokeToken(j) /\ UNCHANGED <<rlVars, sigVars, extVars>>
    \/ \E t \in Presentable : RefreshAccess(t) /\ UNCHANGED <<rlVars, sigVars, extVars>>
    \/ TokTick /\ UNCHANGED <<rlVars, sigVars, extVars>>

SpecTok == Init /\ [][NextTok]_vars

\* Call set-up: offers, answers, rejections and hang-ups.
NextSig ==
    \/ \E c \in Conns, u \in Users, ok \in BOOLEAN :
           handle_authentication(c, u, ok) /\ UNCHANGED <<rlVars, tokVars, extVars>>
    \/ \E c \in Conns, m \in Msgs : handle_offer(c, m) /\ UNCHANGED <<rlVars, tokVars, extVars>>
    \/ \E c \in Conns, m \in Msgs : handle_answer(c, m) /\ UNCHANGED <<rlVars, tokVars, extVars>>
    \/ \E c \in Conns : AnswerResume(c) /\ UNCHANGED <<rlVars, tokVars, extVars>>
    \/ \E c \in Conns, m \in Msgs : handle_call_reject(c, m) /\ UNCHANGED <<rlVars, tokVars, extVars>>
    \/ \E c \in Conns, m \in Msgs : handle_call_end(c, m) /\ UNCHANGED <<rlVars, tokVars, extVars>>

SpecSig == Init /\ [][NextSig]_vars

\* Call teardown: the server-side peer connections of calls set up by two
\* clients, each on its own connection and speaking for itself.
HomeUser(c) == IF c = "c1" THEN "u1" ELSE "u2"

OwnMsgs(c) ==
    {m \in Msgs : /\ m.jwt = create_access_token(m.user_id)
                  /\ m.user_id = HomeUser(c)
                  /\ m.from = HomeUser(c)}

NextSrv ==
    \/ \E c \in Conns : handle_authentication(c, HomeUser(c), TRUE) /\ UNCHANGED <<rlVars, tokVars, extVars>>
    \/ \E c \in Conns : \E m \in OwnMsgs(c) : handle_offer(c, m) /\ UNCHANGED <<rlVars, tokVars, extVars>>
    \/ \E c \in Conns : \E m \in OwnMsgs(c) : handle_answer(c, m) /\ UNCHANGED <<rlVars, tokVars, extVars>>
    \/ \E c \in Conns : AnswerResume(c) /\ UNCHANGED <<rlVars, tokVars, extVars>>
    \/ \E s \in DOMAIN servers : EnsureCallId(s) /\ UNCHANGED <<rlVars, tokVars, extVars>>
    \/ \E s \in DOMAIN servers, st \in {"disconnected", "failed"} :
           PcStateChange(s, st) /\ UNCHANGED <<rlVars, tokVars, extVars>>
    \/ \E s \in DOMAIN servers : OnPcState(s) /\ UNCHANGED <<rlVars, tokVars, extVars>>
    \/ \E s \in DOMAIN servers : OnPcStateWake(s) /\ UNCHANGED <<rlVars, tokVars, extVars>>
    \/ \E i \in DOMAIN term_tasks : TerminateResume(i) /\ UNCHANGED <<rlVars, tokVars, extVars>>

SpecSrv == Init /\ [][NextSrv]_vars

\* The JWT gate: every message handler, fed well-formed and ill-formed
\* messages on one connection while users sign in on theirs.
GateConn == "c1"

NextGate ==
    \/ \E c \in Conns, ok \in BOOLEAN :
           handle_authentication(c, HomeUser(c), ok) /\ UNCHANGED <<rlVars, tokVars, extVars>>
    \/ \E m \in Msgs, p \in Users \cup {""} :
           handle_logout(GateConn, m, p) /\ UNCHANGED <<rlVars, tokVars, extVars>>
    \/ \E m \in Msgs : handle_call_invite(GateConn, m) /\ UNCHANGED <<rlVars, tokVars, extVars>>
    \/ \E m \in Msgs : handle_call_accept(GateConn, m) /\ UNCHANGED <<rlVars, tokVars, extVars>>
    \/ \E m \in Msgs : handle_call_reject(GateConn, m) /\ UNCHANGED <<rlVars, tokVars, extVars>>
    \/ \E m \in Msgs : handle_call_end(GateConn, m) /\ UNCHANGED <<rlVars, tokVars, extVars>>
    \/ \E m \in Msgs : handle_video_state(GateConn, m) /\ UNCHANGED <<rlVars, tokVars, extVars>>
    \/ \E m \in Msgs : handle_offer(GateConn, m) /\ UNCHANGED <<rlVars, tokVars, extVars>>
    \/ \E m \in Msgs : handle_answer(GateConn, m) /\ UNCHANGED <<rlVars, tokVars, extVars>>
    \/ \E m \in Msgs : handle_ice_candidate(GateConn, m) /\ UNCHANGED <<rlVars, tokVars, extVars>>
    \/ \E m \in Msgs : handle_get_contacts(GateConn, m) /\ UNCHANGED <<rlVars, tokVars, extVars>>
    \/ \E m \in Msgs : handle_fetch_call_history(GateConn, m) /\ UNCHANGED <<rlVars, tokVars, extVars>>
    \/ AnswerResume(GateConn) /\ UNCHANGED <<rlVars, tokVars, extVars>>
    \/ \E m \in Msgs, u \in {"u2", "nobody"} :
           handle_add_contact(GateConn, m, u) /\ UNCHANGED <<rlVars, tokVars, extVars>>

SpecGate == Init /\ [][NextGate]_vars

\* Connection teardown: sessions registered on a websocket, their server-side
\* peer connections, logout and disconnection.
ValidMsgs == {m \in Msgs : m.jwt = create_access_token(m.user_id)}

NextConn ==
    \/ \E c \in Conns, u \in Users : handle_authentication(c, u, TRUE) /\ UNCHANGED <<rlVars, tokVars, extVars>>
    \/ \E c \in Conns, m \in ValidMsgs, p \in Users :
           handle_logout(c, m, p) /\ UNCHANGED <<rlVars, tokVars, extVars>>
    \/ \E c \in Conns, m \in ValidMsgs : handle_offer(c, m) /\ UNCHANGED <<rlVars, tokVars, extVars>>
    \/ \E s \in DOMAIN servers : OnPcState(s) /\ UNCHANGED <<rlVars, tokVars, extVars>>
    \/ \E c \in Conns : handle_disconnection(c) /\ UNCHANGED <<rlVars, tokVars, extVars>>
    \/ \E c \in Conns : DisconnectionResume(c) /\ UNCHANGED <<rlVars, tokVars, extVars>>

SpecConn == Init /\ [][NextConn]_vars

\* Token verification on its own: any token, any expected type, any declared
\* user, at any time.
NextJwt ==
    \/ \E t \in AnyTokens, e \in TokenTypes, u \in Users :
           VerifyInMessage(t, e, u) /\ UNCHANGED <<rlVars, tokVars, sigVars, authVars, wireVars, hbVars, mediaVars, contactVars, pcVars, pumpVars, auditVars>>
    \/ TokTick /\ UNCHANGED <<rlVars, sigVars, extVars>>

SpecJwt == Init /\ [][NextJwt]_vars

\* Sign-up and login on two connections.
SigRest == <<pending_calls, objs, calls, contacts, servers, conn_task, term_tasks,
             last, offerOpen>>

\* Ill-formed payloads arrive on one connection, well-formed ones on both.
PayloadsOn(c, payloads) ==
    IF c = GateConn THEN payloads
    ELSE {p \in payloads : AuthError(p) = "" /\ (p.name = <<>> \/ SignupError(p) = "")}

NextAuth ==
    \/ \E c \in Conns : \E p \in PayloadsOn(c, SignupPayloads) :
           handle_signup(c, p) /\ UNCHANGED <<rlVars, SigRest, jwtVars, wireVars, hbVars, mediaVars, contactVars, pcVars, pumpVars, auditVars>>
    \/ \E c \in Conns : SignupInsert(c) /\ UNCHANGED <<rlVars, SigRest, jwtVars, wireVars, hbVars, mediaVars, contactVars, pcVars, pumpVars, auditVars>>
    \/ \E c \in Conns : \E p \in PayloadsOn(c, LoginPayloads) :
           Authenticate(c, p) /\ UNCHANGED <<rlVars, SigRest, jwtVars, wireVars, hbVars, mediaVars, contactVars, pcVars, pumpVars, auditVars>>
    \/ \E c \in Conns : AuthenticateCheck(c) /\ UNCHANGED <<rlVars, SigRest, jwtVars, wireVars, hbVars, mediaVars, contactVars, pcVars, pumpVars, auditVars>>
    \/ \E c \in Conns : AuthIssue(c) /\ UNCHANGED <<rlVars, SigRest, jwtVars, wireVars, hbVars, mediaVars, contactVars, pcVars, pumpVars, auditVars>>
    \/ \E c \in Conns : AuthSave(c) /\ UNCHANGED <<rlVars, SigRest, jwtVars, wireVars, hbVars, mediaVars, contactVars, pcVars, pumpVars, auditVars>>
    \/ \E c \in Conns : AuthRegister(c) /\ UNCHANGED <<rlVars, SigRest, jwtVars, wireVars, hbVars, mediaVars, contactVars, pcVars, pumpVars, auditVars>>

SpecAuth == Init /\ [][NextAuth]_vars

\* Offers of every kind, in both directions and on both connections, between
\* users that sign in, with the answers that start the call.
NextPair ==
    \/ \E c \in Conns :
           handle_authentication(c, HomeUser(c), TRUE) /\ UNCHANGED <<rlVars, tokVars, extVars>>
    \/ \E c \in Conns, m \in Msgs : handle_offer(c, m) /\ UNCHANGED <<rlVars, tokVars, extVars>>
    \/ \E c \in Conns : \E m \in OwnMsgs(c) :
           handle_answer(c, m) /\ UNCHANGED <<rlVars, tokVars, extVars>>
    \/ \E c \in Conns : AnswerResume(c) /\ UNCHANGED <<rlVars, tokVars, extVars>>

SpecPair == Init /\ [][NextPair]_vars

\* Refresh tokens are issued, revoked, age, and are presented to
\* handle_refresh_token.
NextRefresh ==
    \/ \E c \in Conns, u \in Users :
           CreateRefreshRevoke(c, u) /\ UNCHANGED <<rlVars, sigVars, extVars>>
    \/ \E c \in Conns : CreateRefreshSave(c) /\ UNCHANGED <<rlVars, sigVars, extVars>>
    \/ \E j \in 1..MaxTokens : RevokeToken(j) /\ UNCHANGED <<rlVars, sigVars, extVars>>
    \/ \E c \in Conns, t \in Presentable \cup {NoToken} :
           handle_refresh_token(c, t) /\ UNCHANGED <<rlVars, extVars>>
    \/ TokTick /\ UNCHANGED <<rlVars, sigVars, extVars>>

SpecRefresh == Init /\ [][NextRefresh]_vars

\* Connections from the handshake on: frames of every kind, logins, call
\* invitations, and the end of the connection.
WireRest == <<rlVars, tokVars, jwtVars, authVars, mediaVars, contactVars, pcVars, pumpVars, auditVars>>

NextWire ==
    \/ \E c \in Conns, m \in FirstMessages :
           Handshake(c, m) /\ UNCHANGED <<WireRest, sigVars, hbVars>>
    \/ \E c \in Conns, f \in WireFrames : RecvFrame(c, f) /\ UNCHANGED WireRest
    \/ \E c \in Conns, ok \in BOOLEAN :
           WireAuthenticate(c, HomeUser(c), ok) /\ UNCHANGED <<WireRest, hbVars>>
    \/ \E c \in Conns, m \in Msgs : WireCallInvite(c, m) /\ UNCHANGED <<WireRest, hbVars>>
    \/ \E c \in Conns : ClientClose(c) /\ UNCHANGED WireRest
    \/ \E c \in Conns : HeartbeatCancelled(c) /\ UNCHANGED <<WireRest, sigVars>>

SpecWire == Init /\ [][NextWire]_vars

\* A call with a media terminus: the caller on c1 offers to its peer and to
\* the server, the callee on c2 answers; frames are inferred on, written
\* to the call document and pushed while the call is torn down.
MediaRest == <<rlVars, tokVars, jwtVars, authVars, hbVars, contactVars, pcVars, pumpVars, auditVars>>

GoodFirst == {m \in FirstMessages : HandshakeError(m) = "" /\ m.client_public_key = "pkA"}

NextMedia ==
    \/ \E c \in Conns, m \in GoodFirst :
           Handshake(c, m) /\ UNCHANGED <<MediaRest, sigVars, mediaVars>>
    \/ \E c \in Conns :
           WireAuthenticate(c, HomeUser(c), TRUE) /\ UNCHANGED <<MediaRest, mediaVars>>
    \/ \E m \in OwnMsgs("c1") : MediaOffer("c1", m) /\ UNCHANGED MediaRest
    \/ \E m \in OwnMsgs("c2") : MediaAnswer("c2", m) /\ UNCHANGED MediaRest
    \/ MediaAnswerResume("c2") /\ UNCHANGED MediaRest
    \/ \E s \in DOMAIN servers : MediaSilent(EnsureCallId(s)) /\ UNCHANGED MediaRest
    \/ \E s \in DOMAIN servers :
           MediaSilent(PcStateChange(s, "failed")) /\ UNCHANGED MediaRest
    \/ \E s \in DOMAIN servers : MediaSilent(OnPcState(s)) /\ UNCHANGED MediaRest
    \/ \E i \in DOMAIN term_tasks : MediaSilent(TerminateResume(i)) /\ UNCHANGED MediaRest
    \/ \E s \in DOMAIN servers : VideoRecv(s) /\ UNCHANGED MediaRest
    \/ \E s \in DOMAIN servers, p \in {"", "word"} :
           VideoAppend(s, p) /\ UNCHANGED MediaRest
    \/ \E s \in DOMAIN servers : VideoRelay(s) /\ UNCHANGED MediaRest

SpecMedia == Init /\ [][NextMedia]_vars

\* The same with the end of the video pump, under the scheduling of the
\* event loop: a coroutine that can continue does continue, so a poll of
\* _ensure_call_id that would find the call id is made, a raised
\* connectionstatechange is handled, and an awaited call returns. What the
\* clients send is up to them.
NextPoll ==
    \/ NextMedia
    \/ \E s \in DOMAIN servers : VideoEnd(s) /\ UNCHANGED MediaRest

SpecPoll == Init /\ [][NextPoll]_vars

SpecPollLive ==
    /\ SpecPoll
    /\ WF_vars(MediaAnswerResume("c2") /\ UNCHANGED MediaRest)
    /\ \A s \in 1..MaxServers :
           /\ WF_vars(s \in DOMAIN servers /\ MediaSilent(EnsureCallId(s))
                      /\ UNCHANGED MediaRest)
           /\ WF_vars(s \in DOMAIN servers /\ MediaSilent(OnPcState(s))
                      /\ UNCHANGED MediaRest)
           /\ WF_vars(s \in DOMAIN servers /\ VideoEnd(s) /\ UNCHANGED MediaRest)
    /\ \A i \in 1..MaxServers :
           WF_vars(i \in DOMAIN term_tasks /\ MediaSilent(TerminateResume(i))
                   /\ UNCHANGED MediaRest)

\* The same with the clock running.
NextTranscript ==
    \/ NextMedia
    \/ MediaTick /\ UNCHANGED <<MediaRest, sigVars, wireVars>>

SpecTranscript == Init /\ [][NextTranscript]_vars

\* The call documents under every order of start_call, append_line and
\* finish_call, on ids that exist and on one that does not, as time passes.
NextCallDoc ==
    \/ \E a \in Users, b \in Users :
           a # b /\ start_call(a, b) /\ UNCHANGED <<MediaRest, wireVars>>
    \/ \E i \in 1..(MaxDocs + 1) : append_line(i) /\ UNCHANGED <<MediaRest, wireVars>>
    \/ \E i \in 1..(MaxDocs + 1) : finish_call(i) /\ UNCHANGED <<MediaRest, wireVars>>
    \/ MediaTick /\ UNCHANGED <<MediaRest, sigVars, wireVars>>

SpecCallDoc == Init /\ [][NextCallDoc]_vars

\* Contacts added by users that sign in, under good and bad tokens, for
\* users that exist, a username that does not, and no username.
ContactRest == <<rlVars, tokVars, jwtVars, authVars, wireVars, hbVars, mediaVars, pcVars, pumpVars, auditVars>>

NextContacts ==
    \/ \E c \in Conns : ContactsLogin(c, HomeUser(c)) /\ UNCHANGED ContactRest
    \/ \E c \in Conns, m \in Msgs, u \in Users \cup {"nobody", ""} :
           AddContact(c, m, u) /\ UNCHANGED ContactRest

SpecContacts == Init /\ [][NextContacts]_vars

\* Server peer connections whose transport drops, recovers and fails, with
\* the _on_pc_state runs these events start.
PcRest == <<rlVars, tokVars, jwtVars, authVars, wireVars, hbVars, mediaVars, contactVars, pumpVars, auditVars>>

ServerOffers(c) == {m \in OwnMsgs(c) : m.target = "server"}

NextPcState ==
    \/ \E c \in Conns :
           PcQuiet(handle_authentication(c, HomeUser(c), TRUE)) /\ UNCHANGED PcRest
    \/ \E c \in Conns : \E m \in ServerOffers(c) :
           PcQuiet(handle_offer(c, m)) /\ UNCHANGED PcRest
    \/ \E s \in DOMAIN servers, st \in {"disconnected", "connected", "failed"} :
           PcChange(s, st) /\ UNCHANGED PcRest
    \/ \E s \in DOMAIN servers : PcEvent(s) /\ UNCHANGED PcRest
    \/ \E s \in DOMAIN servers : PcWake(s) /\ UNCHANGED PcRest

SpecPcState == Init /\ [][NextPcState]_vars

\* Heartbeats: connections that ping or fall silent while time passes and
\* heartbeat_check wakes every HEARTBEAT_INTERVAL.
PingFrames == {f \in WireFrames : FrameClass(f) = "ping"}

NextHb ==
    \/ \E c \in Conns, m \in GoodFirst :
           Handshake(c, m) /\ UNCHANGED <<WireRest, sigVars, hbVars>>
    \/ \E c \in Conns, f \in PingFrames : RecvFrame(c, f) /\ UNCHANGED WireRest
    \/ \E c \in Conns : HeartbeatCheck(c) /\ UNCHANGED <<WireRest, sigVars>>
    \/ HbTick /\ UNCHANGED <<WireRest, sigVars>>
    \/ \E c \in Conns : ClientClose(c) /\ UNCHANGED WireRest
    \/ \E c \in Conns : HeartbeatCancelled(c) /\ UNCHANGED <<WireRest, sigVars>>

SpecHb == Init /\ [][NextHb]_vars

\* The event loop lets time pass and runs a heartbeat_check whose sleep is
\* over.
SpecHbLive ==
    /\ SpecHb
    /\ WF_vars(HbTick /\ UNCHANGED <<WireRest, sigVars>>)
    /\ \A c \in Conns : WF_vars(HeartbeatCheck(c) /\ UNCHANGED <<WireRest, sigVars>>)

\* The audio pump of one terminus: its audio tracks start, frames of
\* either length arrive on them, the speech executor runs the jobs
\* submitted and the recognizer answers with finals and partials.
PumpRest == <<rlVars, tokVars, sigVars, jwtVars, authVars, wireVars, hbVars, mediaVars,
              contactVars, pcVars, auditVars>>

AudioRest == <<PumpRest, lipVars, sdpVars>>

NextAudio ==
    \/ \E t \in AudioTracks : OnAudioTrack(t) /\ UNCHANGED AudioRest
    \/ \E t \in AudioTracks, d \in FrameMs : AudioRecv(t, d) /\ UNCHANGED AudioRest
    \/ \E t \in AudioTracks : SpeechStart(t) /\ UNCHANGED AudioRest
    \/ \E t \in AudioTracks, r \in VoskResults : vosk_transcribe(t, r) /\ UNCHANGED AudioRest
    \/ \E t \in AudioTracks : AudioResult(t) /\ UNCHANGED AudioRest
    \/ \E t \in AudioTracks : AudioRelay(t) /\ UNCHANGED AudioRest

SpecAudio == Init /\ [][NextAudio]_vars

\* The video pumps of the media termini of u1 and u2, in two calls that run
\* at the same time, hand their frames to lip_read: frames with and
\* without a mouth, predictions with and without text.
LipRest == <<PumpRest, audioVars, sdpVars>>

NextLip ==
    \E sender \in Users, mouth \in BOOLEAN, text \in {"", "word"} :
        process_frame(sender, mouth, text) /\ UNCHANGED LipRest

SpecLip == Init /\ [][NextLip]_vars

\* Two users signed in, each on its own connection, who send signalling
\* and call-control messages under their own access tokens with either
\* user named in payload.from.
AuditRest == <<rlVars, tokVars, jwtVars, authVars, wireVars, hbVars, mediaVars,
               contactVars, pcVars, pumpVars>>

SignedMsgs(c) == {m \in ValidMsgs : m.user_id = HomeUser(c)}

NextSender ==
    \/ \E c \in Conns :
           Unsaid(handle_authentication(c, HomeUser(c), TRUE)) /\ UNCHANGED AuditRest
    \/ \E c \in Conns : \E m \in SignedMsgs(c) :
           Said(m, handle_call_invite(c, m)) /\ UNCHANGED AuditRest
    \/ \E c \in Conns : \E m \in SignedMsgs(c) :
           Said(m, handle_offer(c, m)) /\ UNCHANGED AuditRest
    \/ \E c \in Conns : \E m \in SignedMsgs(c) :
           Said(m, handle_answer(c, m)) /\ UNCHANGED AuditRest
    \/ \E c \in Conns : Unsaid(AnswerResume(c)) /\ UNCHANGED AuditRest
    \/ \E c \in Conns : \E m \in SignedMsgs(c) :
           Said(m, handle_ice_candidate(c, m)) /\ UNCHANGED AuditRest

SpecSender == Init /\ [][NextSender]_vars

\* Offers to the server whose SDP holds rtpmap, fmtp and rtcp-fb lines of
\* two payload types, either of them rtx or not, in every order.
NextSdp ==
    \E sdp \in SdpTexts :
        StripRtx(sdp) /\ UNCHANGED <<PumpRest, audioVars, lipVars>>

SpecSdp == Init /\ [][NextSdp]_vars

\* ------------------------------------------------------------------------
\* Properties of the rate limiter
\* ------------------------------------------------------------------------

\* C5 (as claimed): for every key, the allow(key) calls that returned True
\* within any window of WINDOW_SECONDS number at most MAX_MSG_PER_WIN, also
\* when forget(key) is called in between.
C5_WindowBoundAcrossForget ==
    \A k \in Keys : Len(Recent(granted[k], rl_now)) <= MAX_MSG_PER_WIN

\* C5 (amended): for every key, the allow(key) calls that returned True within
\* any window of WINDOW_SECONDS in which forget(key) was not called number at
\* most MAX_MSG_PER_WIN.
C5_WindowBound ==
    \A k \in Keys : Len(Recent(grantedNF[k], rl_now)) <= MAX_MSG_PER_WIN

\* A full window: MAX_MSG_PER_WIN calls were granted and the next was denied.
C5_Witness ==
    /\ rl_last.op = "allow"
    /\ ~rl_last.res
    /\ ~Has(rl_last.prevBanned, rl_last.key)
    /\ Len(Recent(grantedNF[rl_last.key], rl_now)) = MAX_MSG_PER_WIN

\* C6: an allow(key) that finds MAX_MSG_PER_WIN hits already in the window
\* returns False, clears the window and bans the key for BAN_SECONDS; while
\* the ban lasts is_banned(key) is true and allow(key) returns False without
\* recording a hit or moving the deadline; the first allow(key) once the ban
\* has run out returns True.
C6_BanLifecycle ==
    /\ \A k \in DOMAIN banAt : rl_now < banAt[k] + BAN_SECONDS => is_banned(k)
    /\ \A k \in DOMAIN banned_until :
          Has(banAt, k) /\ banned_until[k] = banAt[k] + BAN_SECONDS
    /\ rl_last.op = "allow" =>
          LET k == rl_last.key
              pw == rl_last.prevWins
              pb == rl_last.prevBanned
              inBan == Has(pb, k) /\ rl_last.at < pb[k]
              hitsBefore == IF Has(pw, k) THEN Len(Recent(pw[k], rl_last.at)) ELSE 0
          IN  /\ inBan => ~rl_last.res /\ wins = pw /\ banned_until = pb
              /\ (~inBan /\ hitsBefore >= MAX_MSG_PER_WIN) =>
                    /\ ~rl_last.res
                    /\ wins[k] = <<>>
                    /\ banned_until[k] = rl_last.at + BAN_SECONDS
              /\ (Has(pb, k) /\ ~inBan) => rl_last.res /\ ~Has(banned_until, k)

\* A ban that was served: the key was banned, a call was denied during the
\* ban, and the call at hand, made once the ban had run out, was granted.
C6_Witness ==
    /\ rl_last.op = "allow"
    /\ rl_last.res
    /\ Has(rl_last.prevBanned, rl_last.key)
    /\ rl_last.at >= rl_last.prevBanned[rl_last.key]
    /\ Has(banAt, rl_last.key)

\* ------------------------------------------------------------------------
\* Properties of the refresh tokens
\* ------------------------------------------------------------------------

\* C3: at every instant every user has at most one refresh-token record with
\* revoked = false, whatever the interleaving of the issuances.
C3_OneLiveToken ==
    \A u \in Users :
        Cardinality({i \in DOMAIN rt_collection :
                        rt_collection[i].user_id = u /\ ~rt_collection[i].revoked}) <= 1

\* C7: refresh_access_token accepts a token exactly when its signature and
\* type verify and the record of its jti is not revoked, not expired and
\* holds the token's SHA-256; a record once revoked stays revoked, so its
\* token is never accepted again.
C7_AcceptIff ==
    /\ tok_last.op = "refresh" =>
          LET t == tok_last.token
          IN  /\ (tok_last.res = "accepted") <=>
                    /\ t.sig = "good"
                    /\ t.type = "refresh"
                    /\ \E r \in Range(rt_collection) :
                          /\ r.jti = t.jti
                          /\ ~r.revoked
                          /\ tok_now < r.expires_at
                          /\ r.token_hash = Hash(t)
              /\ tok_last.res = "accepted" => t.jti \notin everRevoked
    /\ \A r \in Range(rt_collection) : r.jti \in everRevoked => r.revoked

\* An issued token, unexpired and validly signed, presented after its record
\* was revoked, and refused.
C7_Witness ==
    /\ tok_last.op = "refresh"
    /\ tok_last.res = "invalid"
    /\ tok_last.token.sig = "good"
    /\ tok_last.token.type = "refresh"
    /\ tok_last.token.exp > tok_now
    /\ \E r \in Range(rt_collection) :
          /\ r.jti = tok_last.token.jti
          /\ r.token_hash = Hash(tok_last.token)
          /\ r.revoked

\* ------------------------------------------------------------------------
\* Properties of call set-up and teardown
\* ------------------------------------------------------------------------

\* C1 (as claimed): a Call row is inserted exactly when an answer accepts an
\* open offer of the pair, once for each successive call; offers, rejections
\* and hang-ups insert none.
C1_OneRowPerAcceptedCall ==
    /\ last.row => last.type = "answer"
    /\ last.type = "answer" => (last.row <=> last.accept)

\* C2 (as claimed): start_call is called at most once for a PendingCall
\* entry, whatever the interleaving of the answers for its pair.
C2_AtomicCallIdTransition ==
    \A o \in DOMAIN objs : objs[o].starts <= 1

\* C10 (as claimed): an answer for a pair without a PendingCall is answered
\* with an error, is not relayed and inserts no Call row.
C10_AnswerWithoutPendingRejected ==
    (last.type = "answer" /\ last.valid /\ ~last.pend)
        => (last.err /\ last.fwd = "none" /\ ~last.row)

\* C8 (as claimed): finish_call is invoked at most once for every call id,
\* whatever the interleaving of the termination paths.
C8_FinalizedOnce ==
    \A i \in DOMAIN calls : calls[i].finished <= 1

\* ------------------------------------------------------------------------
\* Properties of sessions
\* ------------------------------------------------------------------------

\* C4 (as claimed): every handler but authenticate, given a JWT that is
\* missing, expired, forged or another user's, replies with an error, leaves
\* sessions, pending calls and the database alone and relays nothing.
C4_JwtRequired ==
    (last.type \notin {"none", "authenticate"} /\ ~last.valid)
        => (last.err /\ ~last.changed /\ last.fwd = "none")

\* C9 (as claimed): once the cleanup of a connection has run, no session is
\* registered on its websocket and every peer connection its sessions held
\* is closed.
C9_CleanupRemovesSessions ==
    \A c \in Conns :
        conn_task[c].pc = "closed" =>
            /\ \A i \in DOMAIN clients : clients[i].ws # c
            /\ \A s \in conn_task[c].pcs : servers[s].pc = "closed"

\* C20 (as claimed): forget(key) removes the key's window and its ban
\* deadline, so that right after it is_banned(key) is false and the key is
\* in the state of a never-seen key, and no other key's state has changed.
C20_ForgetClearsAll ==
    (rl_last.op = "forget" /\ rl_last.at = rl_now) =>
        /\ ~is_banned(rl_last.key)
        /\ ~Has(wins, rl_last.key)
        /\ ~Has(banned_until, rl_last.key)
        /\ \A k \in Keys \ {rl_last.key} :
              /\ Has(wins, k) = Has(rl_last.prevWins, k)
              /\ Has(wins, k) => wins[k] = rl_last.prevWins[k]
              /\ Has(banned_until, k) = Has(rl_last.prevBanned, k)
              /\ Has(banned_until, k) => banned_until[k] = rl_last.prevBanned[k]

\* ------------------------------------------------------------------------
\* Properties of verify_jwt_in_message
\* ------------------------------------------------------------------------
\* C17: verify_jwt_in_message(token, expected_type, user_id) answers valid
\* exactly when the token is correctly signed, unexpired, of the expected
\* type and has sub = user_id; otherwise it answers with one error code:
\* MISSING_TOKEN exactly for an absent token, TOKEN_EXPIRED only for an
\* expired one, INVALID_TOKEN only for a bad signature or another type,
\* INVALID_USER only when sub differs from user_id.
C17_VerifyInMessage ==
    jwt_call.op = "verify" =>
        LET t       == jwt_call.token
            present == t # NoToken
            signed  == present /\ t.sig = "good"
            fresh   == present /\ t.exp > jwt_call.at
            typed   == present /\ t.type = jwt_call.expected_type
            owned   == present /\ t.sub = jwt_call.user_id
        IN  /\ jwt_call.res \in {"ok", "MISSING_TOKEN", "TOKEN_EXPIRED",
                                 "INVALID_TOKEN", "INVALID_USER"}
            /\ (jwt_call.res = "ok") <=> (signed /\ fresh /\ typed /\ owned)
            /\ (jwt_call.res = "MISSING_TOKEN") <=> ~present
            /\ (jwt_call.res = "TOKEN_EXPIRED") => (present /\ ~fresh)
            /\ (jwt_call.res = "INVALID_TOKEN") => (present /\ (~signed \/ ~typed))
            /\ (jwt_call.res = "INVALID_USER") => (signed /\ fresh /\ typed /\ ~owned)

\* A well-signed, unexpired token of the expected type, presented for
\* another user than its subject, has been refused with INVALID_USER.
C17_Witness ==
    /\ jwt_call.op = "verify"
    /\ jwt_call.token # NoToken
    /\ jwt_call.token.sig = "good"
    /\ jwt_call.token.exp > jwt_call.at
    /\ jwt_call.token.type = jwt_call.expected_type
    /\ jwt_call.token.sub # jwt_call.user_id
    /\ jwt_call.res = "INVALID_USER"

C12_UniqueUsernames ==
    \A i, j \in DOMAIN users_collection :
        i # j => users_collection[i].username # users_collection[j].username

\* ------------------------------------------------------------------------
\* Properties of connections
\* ------------------------------------------------------------------------
\* C15: a connection whose first message is not a handshake message with
\* payload.client_public_key is closed: it has no session key, its receive
\* loop was never entered and no handler was ever dispatched for it; a
\* handshake message with a usable key opens the connection.
C15_HandshakeFirst ==
    \A c \in Conns :
        LET m  == conn_hist[c].first
            ok == /\ m.kind = "object"
                  /\ m.msg_type = "handshake"
                  /\ m.payload
                  /\ m.has_key
        IN  /\ (m # NoFirst /\ ~ok) =>
                  /\ ws_state[c] = "closed"
                  /\ aes_key[c] = NoKey
                  /\ ~conn_hist[c].entered
                  /\ ~conn_hist[c].dispatched
            /\ m = NoFirst =>
                  /\ ws_state[c] = "new"
                  /\ aes_key[c] = NoKey
                  /\ ~conn_hist[c].dispatched
            /\ (ok /\ m.client_public_key # "garbage") =>
                  /\ conn_hist[c].entered
                  /\ aes_key[c] # NoKey

\* One connection was closed for a first message of another type that
\* carried a public key, while the other is past its handshake and has had
\* a handler dispatched.
C15_Witness ==
    /\ conn_hist["c1"].first.msg_type = "authenticate"
    /\ conn_hist["c1"].first.has_key
    /\ ws_state["c1"] = "closed"
    /\ ws_state["c2"] = "open"
    /\ conn_hist["c2"].dispatched

\* C18 (as claimed): a frame that fails to decrypt or to parse into a
\* message, a frame with an unknown msg_type and a frame whose handler
\* raises are each answered with one encrypted error on their connection,
\* which stays open.
C18_ErrorsKeepConnection ==
    wire_last.class \in {"undecodable", "nonobject", "unknown", "raising"} =>
        /\ ws_state[wire_last.conn] = "open"
        /\ Len(sent) = 1
        /\ sent[1].ws = wire_last.conn
        /\ sent[1].enc
        /\ sent[1].shape \in {"bare_error", "structured_error"}

\* C19 (as claimed): every frame sent after the handshake is a structured
\* message (message_id, timestamp, msg_type, success, and error_code and
\* error_message on failure), the replies to unparseable frames, unknown
\* msg_type and handler exceptions included.
C19_StructuredReplies ==
    \A i \in DOMAIN sent :
        sent[i].stage = "session" =>
            sent[i].shape \in {"structured_ok", "structured_error"}

\* ------------------------------------------------------------------------
\* Properties of media termini
\* ------------------------------------------------------------------------
\* C13 (as claimed): every transcript line of a call document has
\* started_at <= t, and t <= ended_at once the call has been finalized: no
\* line is appended to a finalized call.
C13_LinesWithinCall ==
    \A i \in DOMAIN call_docs :
        \A k \in DOMAIN call_docs[i].transcripts :
            /\ call_docs[i].started_at <= call_docs[i].transcripts[k]
            /\ call_docs[i].ended_at # -1 =>
                   call_docs[i].transcripts[k] <= call_docs[i].ended_at

\* C14: every frame sent on a connection after its handshake, be it a
\* direct reply, a frame relayed by another user's handler or a prediction
\* pushed by a media terminus, is encrypted under the session key derived
\* in the handshake of the connection it is sent on.
C14_OwnSessionKey ==
    \A i \in DOMAIN sent :
        sent[i].stage = "session" =>
            /\ sent[i].enc
            /\ sent[i].key # NoKey
            /\ sent[i].key = aes_key[sent[i].ws]

\* A media terminus created on c1 has pushed a prediction to the partner's
\* connection c2, whose key differs from that of c1.
C14_Witness ==
    /\ wire_last.class = "prediction"
    /\ Len(sent) = 1
    /\ sent[1].ws = "c2"
    /\ aes_key["c1"] # NoKey
    /\ aes_key["c1"] # aes_key["c2"]

\* ------------------------------------------------------------------------
\* Properties of the heartbeat

\* A check of heartbeat_check closes the socket exactly when the last ping
\* is more than HEARTBEAT_TIMEOUT old, and ends the heartbeat task then.
CheckClosesOnlyStale ==
    hb_last.conn # "" =>
        /\ hb_last.closed <=> hb_last.age > HEARTBEAT_TIMEOUT
        /\ hb_last.closed =>
               /\ ws_state[hb_last.conn] \in {"closing", "closed"}
               /\ hb_task[hb_last.conn] = "done"
        /\ ~hb_last.closed => hb_task[hb_last.conn] = "sleeping"

\* A received ping sets last_ping to now and is answered with one pong,
\* encrypted under the connection's key.
PingAnswered ==
    wire_last.class = "ping" =>
        /\ hb_age[wire_last.conn] = 0
        /\ sent = <<Frame(wire_last.conn, aes_key[wire_last.conn], "pong")>>
        /\ ws_state[wire_last.conn] = "open"

\* An open connection whose last ping is more than HEARTBEAT_TIMEOUT old
\* while its heartbeat task runs.
Silent(c) == ws_state[c] = "open" /\ hb_task[c] = "sleeping" /\ Stale(hb_age[c])

\* C16: a check closes the socket if and only if the last ping is more than
\* HEARTBEAT_TIMEOUT old, so a connection that stays silent that long is
\* eventually closed; a received ping sets last_ping to now and is answered
\* with a pong.
C16_HeartbeatTimeout ==
    /\ [](CheckClosesOnlyStale /\ PingAnswered)
    /\ \A c \in Conns : Silent(c) ~> (ws_state[c] # "open" \/ hb_age[c] = 0)

\* A connection fell silent, and a check that saw its last
\* ping more than HEARTBEAT_TIMEOUT old has just closed it, while the other
\* connection has passed a check that saw a fresh enough ping.
C16_Witness ==
    /\ hb_last.conn = "c1"
    /\ hb_last.closed
    /\ hb_last.age > HEARTBEAT_TIMEOUT
    /\ ws_state["c1"] = "closing"
    /\ ws_state["c2"] = "open"
    /\ hb_task["c2"] = "sleeping"
    /\ hb_age["c2"] <= HEARTBEAT_TIMEOUT

\* ------------------------------------------------------------------------
\* Properties of handle_refresh_token

\* C21 (as claimed): when handle_refresh_token answers REFRESH_FAILED, every
\* refresh-token record with the jti of the presented token is marked
\* revoked, and no session was created or changed.
C21_FailedRefreshRevokes ==
    (tok_last.op = "handle_refresh_token" /\ tok_last.res = "REFRESH_FAILED") =>
        /\ \A r \in Range(rt_collection) : r.jti = tok_last.token.jti => r.revoked
        /\ ~last.changed

\* ------------------------------------------------------------------------
\* Properties of state.pending_calls

\* The key of a pair does not depend on the order of the two ids, every key
\* of pending_calls is the key of its own pair, and the caller and callee of
\* an entry are the pair of its key: one entry per unordered pair.
OneEntryPerPair ==
    /\ \A a \in Targets, b \in Targets : call_key(a, b) = call_key(b, a)
    /\ \A k \in DOMAIN pending_calls :
          /\ k = call_key(k[1], k[2])
          /\ k = call_key(objs[pending_calls[k]].caller, objs[pending_calls[k]].callee)
    /\ \A k1 \in DOMAIN pending_calls, k2 \in DOMAIN pending_calls :
          {k1[1], k1[2]} = {k2[1], k2[2]} => k1 = k2

\* A call of handle_offer leaves every existing entry of pending_calls in
\* place with the same caller, callee, call_id and ended.
OfferKeepsEntries ==
    last'.type \in {"offer", "server_offer"} =>
        \A k \in DOMAIN pending_calls :
            /\ k \in DOMAIN pending_calls'
            /\ LET old == objs[pending_calls[k]]
                   new == objs'[pending_calls'[k]]
               IN  /\ new.caller = old.caller
                   /\ new.callee = old.callee
                   /\ new.call_id = old.call_id
                   /\ new.ended = old.ended

C23_HeartbeatAfterHandshake ==
    [][hb_last'.conn # "" => ws_state[hb_last'.conn] # "new"]_vars

\* C24 (as claimed): once the receive loop of a connection has left and
\* handle_disconnection has started, the heartbeat task of the connection
\* has completed.
C24_CleanupAfterHeartbeat ==
    \A c \in Conns :
        conn_task[c].pc \in {"closing", "closed"} => hb_task[c] \in {"cancelled", "done"}

\* C25 (as claimed): a frame taken from the socket by the receive loop has
\* first been put to RateLimiter.allow, so the step that received it is an
\* allow call of the limiter.
C25_FramesRateLimited ==
    wire_last.conn # "" => rl_last.op = "allow"

\* ------------------------------------------------------------------------
\* Properties of the call documents

\* ended_at and duration_seconds are None together and until finish_call
\* has run; afterwards ended_at >= started_at and duration_seconds is their
\* difference in seconds.
CallDocShape ==
    /\ DOMAIN call_docs = DOMAIN calls
    /\ \A i \in DOMAIN call_docs :
          LET d == call_docs[i]
          IN  /\ d.started_at >= 0
              /\ (d.ended_at = -1) <=> (calls[i].finished = 0)
              /\ (d.ended_at = -1) <=> (d.duration_seconds = -1)
              /\ d.ended_at # -1 =>
                    /\ d.ended_at >= d.started_at
                    /\ d.duration_seconds = d.ended_at - d.started_at

\* No step removes a call document or changes its started_at, and a step
\* that changes its transcripts adds one line at the end and changes no
\* other field.
CallDocSteps ==
    \A i \in DOMAIN call_docs :
        /\ i \in DOMAIN call_docs'
        /\ call_docs'[i].started_at = call_docs[i].started_at
        /\ call_docs'[i].transcripts # call_docs[i].transcripts =>
              /\ call_docs'[i].transcripts = Append(call_docs[i].transcripts, media_now)
              /\ call_docs'[i] = [call_docs[i] EXCEPT !.transcripts = call_docs'[i].transcripts]

Occurrences(arr, x) == Cardinality({i \in DOMAIN arr : arr[i] = x})

\* An answered add_contact request: on success the contact occurs exactly
\* once in the user's array and every other count is as before; a username
\* that does not exist is answered ADD_CONTACT_FAILED; every error leaves
\* the arrays unchanged.
AddContactStep ==
    contact_last'.user # "" =>
        LET r == contact_last'
        IN  /\ (r.valid /\ r.contact \notin Users \cup {""}) => r.code = "ADD_CONTACT_FAILED"
            /\ (r.valid /\ r.contact \in Users) => r.code = ""
            /\ r.code # "" => contacts' = contacts
            /\ r.code = "" =>
                  /\ Occurrences(contacts'[r.user], r.contact) = 1
                  /\ \A u \in Users, x \in Users :
                        <<u, x>> # <<r.user, r.contact>> =>
                            Occurrences(contacts'[u], x) = Occurrences(contacts[u], x)

\* C27: add_contact has set semantics and is idempotent: however often a
\* contact is added, the user's contacts hold exactly one entry for it; a
\* username that does not exist is answered ADD_CONTACT_FAILED and leaves
\* the contacts unchanged.
C27_AddContactIdempotent ==
    /\ [](\A u \in Users, x \in Users : Occurrences(contacts[u], x) <= 1)
    /\ [][AddContactStep]_vars

\* A contact that was already in the user's contacts has been added again,
\* with success, next to another contact.
C27_Witness ==
    /\ contact_last.code = ""
    /\ contact_last.user = "u1"
    /\ contact_last.contact = "u2"
    /\ contacts["u1"] = <<"u2", "u1">>

\* ------------------------------------------------------------------------
\* Properties of _ensure_call_id

\* A terminus without call_id has taken no frame from its track.
BlockedWithoutCallId ==
    \A s \in DOMAIN servers : servers[s].call_id = 0 => video_task[s] = "recv"

\* The call_id of a terminus is set once, to the call_id its pair's entry
\* of pending_calls holds at that moment; a transcript line is added only
\* by a terminus that has its call_id, to the document with that id, and a
\* prediction is relayed only by such a terminus.
CallIdSteps ==
    /\ \A s \in DOMAIN servers :
          servers'[s].call_id # servers[s].call_id =>
              LET key == call_key(servers[s].sender, servers[s].target)
              IN  /\ servers[s].call_id = 0
                  /\ Has(pending_calls, key)
                  /\ objs[pending_calls[key]].call_id # 0
                  /\ servers'[s].call_id = objs[pending_calls[key]].call_id
    /\ \A i \in DOMAIN call_docs :
          call_docs'[i].transcripts # call_docs[i].transcripts =>
              \E s \in DOMAIN servers :
                  /\ video_task[s] = "infer"
                  /\ video_task'[s] = "relay"
                  /\ servers[s].call_id = i
    /\ wire_last'.class = "prediction" =>
          \E s \in DOMAIN servers :
              /\ video_task[s] = "relay"
              /\ video_task'[s] = "recv"
              /\ servers[s].call_id # 0
              /\ call_docs[servers[s].call_id].transcripts # <<>>

\* C28: a media terminus appends no transcript line and relays no
\* prediction until the PendingCall of its pair has a call_id, and every
\* line it appends goes to the call document with exactly that call_id.
C28_BlockedUntilCallId == [](BlockedWithoutCallId) /\ [][CallIdSteps]_vars

\* A terminus that took the call_id of its pair's PendingCall has written a
\* line to that call document and has just relayed the prediction.
C28_Witness ==
    /\ wire_last.class = "prediction"
    /\ \E s \in DOMAIN servers :
          /\ servers[s].call_id # 0
          /\ video_task[s] = "recv"
          /\ call_docs[servers[s].call_id].transcripts # <<>>

\* ------------------------------------------------------------------------
\* Properties of call teardown by message

\* C29 (as claimed): once a call_end message of one party has been accepted
\* and relayed to the other, no entry of pending_calls remains for a call
\* of the pair that had been started, so that a later offer starts from the
\* absent state.
C29_CallEndRemovesPending ==
    (last.type = "call_end" /\ last.valid /\ ~last.err) =>
        \A a \in Users, b \in Users :
            Has(pending_calls, call_key(a, b)) =>
                objs[pending_calls[call_key(a, b)]].call_id = 0

\* ------------------------------------------------------------------------
\* Properties of _on_pc_state

\* _terminate_call has run for instance s in this step: its finish_call is
\* pending or its peer connection is closed.
Terminated(s) ==
    \/ servers'[s].pc = "closed"
    \/ Len(term_tasks') > Len(term_tasks)

\* The step has left the call of instance s as it was.
NotTerminated(s) ==
    /\ servers'[s].pc = servers[s].pc
    /\ UNCHANGED <<pending_calls, calls, term_tasks>>

\* What a run of _on_pc_state does with the state it sees, when the event
\* is handled and when its sleep is over.
PcStateSteps ==
    pc_last'.step # "none" =>
        LET r == pc_last'
            s == pc_last'.srv
        IN  /\ (r.step = "event" /\ r.state \in {"closed", "failed"}) => Terminated(s)
            /\ (r.step = "event" /\ r.state = "disconnected") =>
                  /\ NotTerminated(s)
                  /\ servers'[s].sleeping = servers[s].sleeping + 1
            /\ (r.step = "event" /\ r.state = "connected") =>
                  /\ NotTerminated(s)
                  /\ servers'[s].sleeping = servers[s].sleeping
            /\ (r.step = "wake" /\ r.state = "disconnected") => Terminated(s)
            /\ (r.step = "wake" /\ r.state # "disconnected") => NotTerminated(s)

C31_OneJobPerRecognizer ==
    /\ Cardinality(InFlight) <= 1
    /\ \A i \in DOMAIN recognizer, j \in DOMAIN recognizer :
           i < j =>
               \A a \in DOMAIN recognizer[i], b \in DOMAIN recognizer[j] :
                   recognizer[i][a] < recognizer[j][b]

\* Between the steps of the pump the counter is below the threshold; a
\* frame that brings it to the threshold or above, and no other, has the
\* whole buffer submitted as one chunk and the buffer and counter reset.
ChunkAtThreshold ==
    /\ buffered_ms < TARGET_CHUNK_SIZE
    /\ (buffered_ms = 0) <=> (pcm_buffer = <<>>)
    /\ audio_last.op = "recv" =>
           LET t == audio_last.track
           IN  /\ audio_last.handed <=> audio_last.ms >= TARGET_CHUNK_SIZE
               /\ audio_last.handed =>
                      /\ pcm_buffer = <<>>
                      /\ buffered_ms = 0
                      /\ audio_task[t].pc = "queued"
                      /\ audio_task[t].chunk # <<>>
                      /\ audio_task[t].chunk[Len(audio_task[t].chunk)] = audio_arrived
               /\ ~audio_last.handed =>
                      /\ buffered_ms = audio_last.ms
                      /\ pcm_buffer[Len(pcm_buffer)] = audio_arrived
                      /\ audio_task[t].pc = "recv"

\* What the pump does with a result: a final with text is written with
\* source "vosk" and stands before its relay, a partial with text is
\* relayed and not written, a result without text is neither.
ResultHandled ==
    /\ audio_last.op = "result" =>
           LET r == audio_last.result
               t == audio_last.track
               n == Len(audio_log)
           IN  /\ (r.final /\ r.text # "") =>
                      /\ n > 0
                      /\ audio_log[n] = [op |-> "append_line", track |-> t,
                                         source |-> "vosk", text |-> r.text]
                      /\ audio_task[t].pc = "relay"
               /\ (~r.final /\ r.text # "") =>
                      /\ n > 0
                      /\ audio_log[n] = [op |-> "relay", track |-> t, source |-> "",
                                         text |-> r.text]
                      /\ audio_task[t].pc = "recv"
               /\ r.text = "" => audio_task[t].pc = "recv"
    /\ audio_last.op = "relay" =>
           LET n == Len(audio_log)
           IN  /\ n > 1
               /\ audio_log[n] = [op |-> "relay", track |-> audio_last.track,
                                  source |-> "", text |-> audio_last.result.text]
               /\ audio_last.result.final
               /\ \E i \in 1..(n - 1) :
                      audio_log[i] = [audio_log[n] EXCEPT !.op = "append_line",
                                                          !.source = "vosk"]

\* A chunk is submitted only by the frame that fills the buffer, and a
\* line is written or relayed only for a result with text: written only
\* for a final one.
AudioSteps ==
    /\ \A t \in AudioTracks :
           (audio_task'[t].pc = "queued" /\ audio_task[t].pc # "queued") =>
               (audio_last'.op = "recv" /\ audio_last'.track = t /\ audio_last'.handed)
    /\ audio_log' # audio_log =>
           LET e == audio_log'[Len(audio_log')]
           IN  /\ audio_log' = Append(audio_log, e)
               /\ audio_last'.op \in {"result", "relay"}
               /\ audio_last'.result.text # ""
               /\ e.text = audio_last'.result.text
               /\ e.op = "append_line" =>
                      (audio_last'.op = "result" /\ audio_last'.result.final)
    /\ (audio_last'.op = "result" /\ audio_last'.result.text = "") =>
           audio_log' = audio_log

LipReturn ==
    /\ Len(lip_buffer) < SEQUENCE_LEN
    /\ lip_last.sender # "" =>
           /\ ~lip_last.returned.none <=>
                  (lip_last.mouth /\ lip_last.before + 1 = SEQUENCE_LEN)
           /\ ~lip_last.returned.none =>
                  /\ lip_buffer = <<>>
                  /\ Len(lip_last.sequence) = SEQUENCE_LEN
           /\ (lip_last.returned.none /\ lip_last.mouth) =>
                  Len(lip_buffer) = lip_last.before + 1
           /\ ~lip_last.mouth => Len(lip_buffer) = lip_last.before

\* What a process_frame call did to the buffer.
LipSteps ==
    /\ ~lip_last'.mouth => lip_buffer' = lip_buffer
    /\ (lip_last'.mouth /\ lip_last'.returned.none) =>
           lip_buffer' = Append(lip_buffer, lip_last'.sender)
    /\ ~lip_last'.returned.none =>
           lip_last'.sequence = Append(lip_buffer, lip_last'.sender)

C35_OwnFramesOnly ==
    (~lip_last.returned.none /\ lip_last.returned.text # "") =>
        \A i \in DOMAIN lip_last.sequence : lip_last.sequence[i] = lip_last.sender

\* ------------------------------------------------------------------------
\* Properties of _strip_rtx

\* The payload types of the rtpmap lines of rtx in a list of lines.
RemovedPayloadTypes(lines) ==
    {lines[i].pt : i \in {j \in DOMAIN lines :
                              /\ lines[j].prefix = "a=rtpmap:"
                              /\ lines[j].value = <<"rtx/90000">>}}

\* C34 (as claimed): _strip_rtx removes exactly the rtpmap lines of rtx and
\* the fmtp and rtcp-fb lines whose payload type is one of the removed
\* payload types; every other line, fmtp and rtcp-fb lines of other
\* payload types among them, is kept in its order, the result is joined
\* and ended with CRLF, and stripping the result again returns it.
C34_StripsExactlyRtx ==
    sdp_last.called =>
        LET lines == splitlines(sdp_last.sdp)
            removed == RemovedPayloadTypes(lines)
            Kept(line) ==
                /\ ~(line.prefix = "a=rtpmap:" /\ line.value = <<"rtx/90000">>)
                /\ ~(line.prefix \in {"a=fmtp:", "a=rtcp-fb:"} /\ line.pt \in removed)
        IN  /\ sdp_last.result = join(CRLF, SelectSeq(lines, Kept)) \o <<CRLF>>
            /\ sdp_last.again = sdp_last.result

\* ------------------------------------------------------------------------
\* Properties of the sender named in a message

\* C36 (as claimed): a message accepted under a user's access JWT creates a
\* PendingCall, starts a Call row, sets up a server peer connection or is
\* relayed only in that user's name: payload.from, which becomes
\* PendingCall.caller and the from of the relayed frame, is the subject of
\* the JWT.
C36_SenderIsJwtSubject ==
    (msg_last.valid /\ (msg_last.pending \/ msg_last.row \/ msg_last.relayed
                        \/ msg_last.pc)) =>
        msg_last.from = msg_last.user_id

\* ------------------------------------------------------------------------
\* Properties of the server peer connections of a session

\* C37 (as claimed): a server peer connection that is not closed is the pc
\* of a registered session: a second server offer, a new login or a
\* logout never overwrites or drops the pc of a session without closing
\* it.
C37_ServerPcClosedWhenDropped ==
    \A s \in DOMAIN servers :
        servers[s].pc # "closed" =>
            \E u \in Users : InClients(u) /\ ClientOf(u).pc = s

\* C38 (as claimed): the cleanup of a connection, in each of its steps,
\* leaves every session bound to another socket registered and unchanged,
\* and the server peer connection of such a session as it was: a session
\* that replaced the one of the old connection survives the old
\* connection's cleanup.
C38_CleanupSparesNewSession ==
    [][\A c \in Conns :
           (conn_task'[c].pc # conn_task[c].pc
            /\ conn_task'[c].pc \in {"closing", "closed"}) =>
               \A i \in DOMAIN clients :
                   clients[i].ws # c =>
                       /\ clients[i] \in Range(clients')
                       /\ clients[i].pc # 0 =>
                              servers'[clients[i].pc].pc = servers[clients[i].pc].pc]_vars

\* ------------------------------------------------------------------------
\* Properties of the wait for the call id

\* C39 (as claimed): the wait of a terminus for its call_id ends: a
\* terminus without call_id obtains one, after which its pump runs, or its
\* track task stops; it does not wait forever for a PendingCall that was
\* never answered or was removed.
C39_CallIdWaitTerminates ==
    \A s \in 1..MaxServers :
        (s \in DOMAIN servers /\ servers[s].call_id = 0)
            ~> (s \in DOMAIN servers
                /\ (servers[s].call_id # 0 \/ video_task[s] = "ended"))

\* ------------------------------------------------------------------------
\* Properties of fetch_call_history

\* C40 (as claimed): fetch_call_history with a valid JWT is answered with
\* success whatever the state of the user's calls, calls in progress or
\* never finalized among them; the repository read of the model never
\* fails, so no such request is answered with CALL_HISTORY_ERROR.
C40_HistoryOfUnfinishedCalls ==
    (last.type = "fetch_call_history" /\ last.valid) => ~last.err

====
